---- MODULE Spec2Model ----
(***************************************************************************)
(* Company-Classifier-Tool: the keyword classifier (src/src/classifier.py), *)
(* the Gemini adapter (src/src/llm_classifier.py), the data loader          *)
(* (src/src/data_loader.py) and the orchestration of src/app.py.            *)
(*                                                                          *)
(* Python strings are modelled as sequences of one-character strings, so    *)
(* that lower(), strip(), `in`, count() and re.sub are computed character   *)
(* by character.  Confidence scores are held in hundredths (1.0 is 100).    *)
(* The intermediate doubles of the keyword classifier are held by the       *)
(* computation that produced them: [q |-> <<n, d>>, plus |-> 0] is the      *)
(* double n / d and [q |-> <<n, d>>, plus |-> 1] is that double + 0.2.       *)
(***************************************************************************)
EXTENDS Integers, Sequences, FiniteSets, TLC

VARIABLES
  kw_in,            \* arguments of classify_company_keyword_based
  kw_out,           \* its return value, or NoResult before the call
  model,            \* GeminiCompanyClassifier.model: "None" or the model name
  api_key_set,      \* GeminiCompanyClassifier._api_key_set
  service_calls,    \* generate_content invocations made by the current operation
  last,             \* the operation just made on the adapter or the manual form
  batch,            \* the batch run of app.py: rows, cursor, results, counters
  compose_in,       \* arguments of combine_columns_to_description
  compose_out       \* its return value, or NoComposeResult before the call

vars == <<kw_in, kw_out, model, api_key_set, service_calls, last, batch,
          compose_in, compose_out>>

----------------------------------------------------------------------------
(* Python string primitives.                                                *)

UpperLetters ==
  <<"A","B","C","D","E","F","G","H","I","J","K","L","M",
    "N","O","P","Q","R","S","T","U","V","W","X","Y","Z">>

LowerLetters ==
  <<"a","b","c","d","e","f","g","h","i","j","k","l","m",
    "n","o","p","q","r","s","t","u","v","w","x","y","z">>

Digits == {"0","1","2","3","4","5","6","7","8","9"}

\* the ASCII characters str.strip() removes and the regex class \s matches:
\* space, \t, \n, \r, \f and the control characters 11 (VT), 28, 29, 30, 31
Whitespace == {" ", "\t", "\n", "\r", "\f", "", "", "", "", ""}

UpperSet == {UpperLetters[i] : i \in 1..Len(UpperLetters)}
LowerSet == {LowerLetters[i] : i \in 1..Len(LowerLetters)}

\* the lower-case letter of every upper-case letter
LowerTable ==
  [c \in UpperSet |->
     LowerLetters[CHOOSE i \in 1..Len(UpperLetters) : UpperLetters[i] = c]]

LowerChar(c) == IF c \in UpperSet THEN LowerTable[c] ELSE c

\* str.lower()
Lower(s) == [i \in 1..Len(s) |-> LowerChar(s[i])]

RECURSIVE LStrip(_)
LStrip(s) ==
  IF s # <<>> /\ Head(s) \in Whitespace THEN LStrip(Tail(s)) ELSE s

RECURSIVE RStrip(_)
RStrip(s) ==
  IF s # <<>> /\ s[Len(s)] \in Whitespace
  THEN RStrip(SubSeq(s, 1, Len(s) - 1))
  ELSE s

\* str.strip()
Strip(s) == RStrip(LStrip(s))

\* sub occurs in s at position i (1-based)
MatchAt(s, sub, i) ==
  /\ i + Len(sub) - 1 <= Len(s)
  /\ \A j \in 1..Len(sub) : s[i + j - 1] = sub[j]

\* Python's `sub in s`
Contains(s, sub) ==
  \E i \in 1..(Len(s) - Len(sub) + 1) : MatchAt(s, sub, i)

RECURSIVE CountFrom(_, _, _)
CountFrom(s, sub, i) ==
  IF i + Len(sub) - 1 > Len(s) THEN 0
  ELSE IF MatchAt(s, sub, i)
       THEN 1 + CountFrom(s, sub, i + Len(sub))
       ELSE CountFrom(s, sub, i + 1)

\* str.count(sub): non-overlapping occurrences, scanned left to right
Count(s, sub) ==
  IF sub = <<>> THEN Len(s) + 1 ELSE CountFrom(s, sub, 1)

----------------------------------------------------------------------------
(* Keyword classifier, src/src/classifier.py.                               *)

\* lines 21-43, in definition order
industry_keywords ==
  <<
    \* "SaaS": "saas", "software as a service", "cloud software", "subscription-based software", "platform as a service", "crm", "erp", "hr software", "marketing automation", "enterprise software"
    [industry |-> <<"S","a","a","S">>,
     keywords |-> <<
       <<"s","a","a","s">>,
       <<"s","o","f","t","w","a","r","e"," ","a","s"," ","a"," ","s","e","r","v","i","c","e">>,
       <<"c","l","o","u","d"," ","s","o","f","t","w","a","r","e">>,
       <<"s","u","b","s","c","r","i","p","t","i","o","n","-","b","a","s","e","d"," ","s","o","f","t","w","a","r","e">>,
       <<"p","l","a","t","f","o","r","m"," ","a","s"," ","a"," ","s","e","r","v","i","c","e">>,
       <<"c","r","m">>,
       <<"e","r","p">>,
       <<"h","r"," ","s","o","f","t","w","a","r","e">>,
       <<"m","a","r","k","e","t","i","n","g"," ","a","u","t","o","m","a","t","i","o","n">>,
       <<"e","n","t","e","r","p","r","i","s","e"," ","s","o","f","t","w","a","r","e">>
     >>],
    \* "FinTech": "fintech", "finance technology", "payment", "banking", "lending", "investment", "blockchain", "cryptocurrency", "financial services", "insurtech"
    [industry |-> <<"F","i","n","T","e","c","h">>,
     keywords |-> <<
       <<"f","i","n","t","e","c","h">>,
       <<"f","i","n","a","n","c","e"," ","t","e","c","h","n","o","l","o","g","y">>,
       <<"p","a","y","m","e","n","t">>,
       <<"b","a","n","k","i","n","g">>,
       <<"l","e","n","d","i","n","g">>,
       <<"i","n","v","e","s","t","m","e","n","t">>,
       <<"b","l","o","c","k","c","h","a","i","n">>,
       <<"c","r","y","p","t","o","c","u","r","r","e","n","c","y">>,
       <<"f","i","n","a","n","c","i","a","l"," ","s","e","r","v","i","c","e","s">>,
       <<"i","n","s","u","r","t","e","c","h">>
     >>],
    \* "EdTech": "edtech", "education technology", "e-learning", "online learning", "course platform", "educational software", "school management", "learning management system"
    [industry |-> <<"E","d","T","e","c","h">>,
     keywords |-> <<
       <<"e","d","t","e","c","h">>,
       <<"e","d","u","c","a","t","i","o","n"," ","t","e","c","h","n","o","l","o","g","y">>,
       <<"e","-","l","e","a","r","n","i","n","g">>,
       <<"o","n","l","i","n","e"," ","l","e","a","r","n","i","n","g">>,
       <<"c","o","u","r","s","e"," ","p","l","a","t","f","o","r","m">>,
       <<"e","d","u","c","a","t","i","o","n","a","l"," ","s","o","f","t","w","a","r","e">>,
       <<"s","c","h","o","o","l"," ","m","a","n","a","g","e","m","e","n","t">>,
       <<"l","e","a","r","n","i","n","g"," ","m","a","n","a","g","e","m","e","n","t"," ","s","y","s","t","e","m">>
     >>],
    \* "HealthTech": "healthtech", "healthcare technology", "medical devices", "biotech", "pharmaceutical", "digital health", " telehealth", "health data", "medtech", "diagnostics"
    [industry |-> <<"H","e","a","l","t","h","T","e","c","h">>,
     keywords |-> <<
       <<"h","e","a","l","t","h","t","e","c","h">>,
       <<"h","e","a","l","t","h","c","a","r","e"," ","t","e","c","h","n","o","l","o","g","y">>,
       <<"m","e","d","i","c","a","l"," ","d","e","v","i","c","e","s">>,
       <<"b","i","o","t","e","c","h">>,
       <<"p","h","a","r","m","a","c","e","u","t","i","c","a","l">>,
       <<"d","i","g","i","t","a","l"," ","h","e","a","l","t","h">>,
       <<" ","t","e","l","e","h","e","a","l","t","h">>,
       <<"h","e","a","l","t","h"," ","d","a","t","a">>,
       <<"m","e","d","t","e","c","h">>,
       <<"d","i","a","g","n","o","s","t","i","c","s">>
     >>],
    \* "AI/ML": "ai", "artificial intelligence", "machine learning", "deep learning", "nlp", "natural language processing", "computer vision", "data science", "predictive analytics", "generative ai", "neural networks"
    [industry |-> <<"A","I","/","M","L">>,
     keywords |-> <<
       <<"a","i">>,
       <<"a","r","t","i","f","i","c","i","a","l"," ","i","n","t","e","l","l","i","g","e","n","c","e">>,
       <<"m","a","c","h","i","n","e"," ","l","e","a","r","n","i","n","g">>,
       <<"d","e","e","p"," ","l","e","a","r","n","i","n","g">>,
       <<"n","l","p">>,
       <<"n","a","t","u","r","a","l"," ","l","a","n","g","u","a","g","e"," ","p","r","o","c","e","s","s","i","n","g">>,
       <<"c","o","m","p","u","t","e","r"," ","v","i","s","i","o","n">>,
       <<"d","a","t","a"," ","s","c","i","e","n","c","e">>,
       <<"p","r","e","d","i","c","t","i","v","e"," ","a","n","a","l","y","t","i","c","s">>,
       <<"g","e","n","e","r","a","t","i","v","e"," ","a","i">>,
       <<"n","e","u","r","a","l"," ","n","e","t","w","o","r","k","s">>
     >>],
    \* "Cybersecurity": "cybersecurity", "security software", "threat intelligence", "data protection", "network security", "endpoint security", "firewall", "infosec"
    [industry |-> <<"C","y","b","e","r","s","e","c","u","r","i","t","y">>,
     keywords |-> <<
       <<"c","y","b","e","r","s","e","c","u","r","i","t","y">>,
       <<"s","e","c","u","r","i","t","y"," ","s","o","f","t","w","a","r","e">>,
       <<"t","h","r","e","a","t"," ","i","n","t","e","l","l","i","g","e","n","c","e">>,
       <<"d","a","t","a"," ","p","r","o","t","e","c","t","i","o","n">>,
       <<"n","e","t","w","o","r","k"," ","s","e","c","u","r","i","t","y">>,
       <<"e","n","d","p","o","i","n","t"," ","s","e","c","u","r","i","t","y">>,
       <<"f","i","r","e","w","a","l","l">>,
       <<"i","n","f","o","s","e","c">>
     >>],
    \* "E-commerce": "e-commerce", "online retail", "marketplace", "shopify", "digital storefront", "retail tech", "online shopping"
    [industry |-> <<"E","-","c","o","m","m","e","r","c","e">>,
     keywords |-> <<
       <<"e","-","c","o","m","m","e","r","c","e">>,
       <<"o","n","l","i","n","e"," ","r","e","t","a","i","l">>,
       <<"m","a","r","k","e","t","p","l","a","c","e">>,
       <<"s","h","o","p","i","f","y">>,
       <<"d","i","g","i","t","a","l"," ","s","t","o","r","e","f","r","o","n","t">>,
       <<"r","e","t","a","i","l"," ","t","e","c","h">>,
       <<"o","n","l","i","n","e"," ","s","h","o","p","p","i","n","g">>
     >>],
    \* "HR Tech": "hr tech", "human resources software", "recruitment platform", "talent management", "payroll software", "workforce management"
    [industry |-> <<"H","R"," ","T","e","c","h">>,
     keywords |-> <<
       <<"h","r"," ","t","e","c","h">>,
       <<"h","u","m","a","n"," ","r","e","s","o","u","r","c","e","s"," ","s","o","f","t","w","a","r","e">>,
       <<"r","e","c","r","u","i","t","m","e","n","t"," ","p","l","a","t","f","o","r","m">>,
       <<"t","a","l","e","n","t"," ","m","a","n","a","g","e","m","e","n","t">>,
       <<"p","a","y","r","o","l","l"," ","s","o","f","t","w","a","r","e">>,
       <<"w","o","r","k","f","o","r","c","e"," ","m","a","n","a","g","e","m","e","n","t">>
     >>],
    \* "Marketing Tech": "martech", "marketing technology", "adtech", "advertising technology", "crm", "marketing automation", "sales enablement"
    [industry |-> <<"M","a","r","k","e","t","i","n","g"," ","T","e","c","h">>,
     keywords |-> <<
       <<"m","a","r","t","e","c","h">>,
       <<"m","a","r","k","e","t","i","n","g"," ","t","e","c","h","n","o","l","o","g","y">>,
       <<"a","d","t","e","c","h">>,
       <<"a","d","v","e","r","t","i","s","i","n","g"," ","t","e","c","h","n","o","l","o","g","y">>,
       <<"c","r","m">>,
       <<"m","a","r","k","e","t","i","n","g"," ","a","u","t","o","m","a","t","i","o","n">>,
       <<"s","a","l","e","s"," ","e","n","a","b","l","e","m","e","n","t">>
     >>],
    \* "PropTech": "proptech", "real estate technology", "property management software", "smart building", "construction tech"
    [industry |-> <<"P","r","o","p","T","e","c","h">>,
     keywords |-> <<
       <<"p","r","o","p","t","e","c","h">>,
       <<"r","e","a","l"," ","e","s","t","a","t","e"," ","t","e","c","h","n","o","l","o","g","y">>,
       <<"p","r","o","p","e","r","t","y"," ","m","a","n","a","g","e","m","e","n","t"," ","s","o","f","t","w","a","r","e">>,
       <<"s","m","a","r","t"," ","b","u","i","l","d","i","n","g">>,
       <<"c","o","n","s","t","r","u","c","t","i","o","n"," ","t","e","c","h">>
     >>],
    \* "LegalTech": "legaltech", "legal software", "legal practice management", "e-discovery", "legal AI"
    [industry |-> <<"L","e","g","a","l","T","e","c","h">>,
     keywords |-> <<
       <<"l","e","g","a","l","t","e","c","h">>,
       <<"l","e","g","a","l"," ","s","o","f","t","w","a","r","e">>,
       <<"l","e","g","a","l"," ","p","r","a","c","t","i","c","e"," ","m","a","n","a","g","e","m","e","n","t">>,
       <<"e","-","d","i","s","c","o","v","e","r","y">>,
       <<"l","e","g","a","l"," ","A","I">>
     >>],
    \* "Agritech": "agritech", "agriculture technology", "precision farming", "farm management", "crop science", "foodtech"
    [industry |-> <<"A","g","r","i","t","e","c","h">>,
     keywords |-> <<
       <<"a","g","r","i","t","e","c","h">>,
       <<"a","g","r","i","c","u","l","t","u","r","e"," ","t","e","c","h","n","o","l","o","g","y">>,
       <<"p","r","e","c","i","s","i","o","n"," ","f","a","r","m","i","n","g">>,
       <<"f","a","r","m"," ","m","a","n","a","g","e","m","e","n","t">>,
       <<"c","r","o","p"," ","s","c","i","e","n","c","e">>,
       <<"f","o","o","d","t","e","c","h">>
     >>],
    \* "Logistics Tech": "logistics tech", "supply chain management", "transportation software", "fleet management"
    [industry |-> <<"L","o","g","i","s","t","i","c","s"," ","T","e","c","h">>,
     keywords |-> <<
       <<"l","o","g","i","s","t","i","c","s"," ","t","e","c","h">>,
       <<"s","u","p","p","l","y"," ","c","h","a","i","n"," ","m","a","n","a","g","e","m","e","n","t">>,
       <<"t","r","a","n","s","p","o","r","t","a","t","i","o","n"," ","s","o","f","t","w","a","r","e">>,
       <<"f","l","e","e","t"," ","m","a","n","a","g","e","m","e","n","t">>
     >>],
    \* "Automotive Tech": "automotive tech", "electric vehicles", "autonomous driving", "vehicle software"
    [industry |-> <<"A","u","t","o","m","o","t","i","v","e"," ","T","e","c","h">>,
     keywords |-> <<
       <<"a","u","t","o","m","o","t","i","v","e"," ","t","e","c","h">>,
       <<"e","l","e","c","t","r","i","c"," ","v","e","h","i","c","l","e","s">>,
       <<"a","u","t","o","n","o","m","o","u","s"," ","d","r","i","v","i","n","g">>,
       <<"v","e","h","i","c","l","e"," ","s","o","f","t","w","a","r","e">>
     >>],
    \* "CleanTech": "cleantech", "renewable energy", "sustainability", "environmental technology", "waste management"
    [industry |-> <<"C","l","e","a","n","T","e","c","h">>,
     keywords |-> <<
       <<"c","l","e","a","n","t","e","c","h">>,
       <<"r","e","n","e","w","a","b","l","e"," ","e","n","e","r","g","y">>,
       <<"s","u","s","t","a","i","n","a","b","i","l","i","t","y">>,
       <<"e","n","v","i","r","o","n","m","e","n","t","a","l"," ","t","e","c","h","n","o","l","o","g","y">>,
       <<"w","a","s","t","e"," ","m","a","n","a","g","e","m","e","n","t">>
     >>],
    \* "Gaming": "gaming", "game development", "esports", "interactive entertainment"
    [industry |-> <<"G","a","m","i","n","g">>,
     keywords |-> <<
       <<"g","a","m","i","n","g">>,
       <<"g","a","m","e"," ","d","e","v","e","l","o","p","m","e","n","t">>,
       <<"e","s","p","o","r","t","s">>,
       <<"i","n","t","e","r","a","c","t","i","v","e"," ","e","n","t","e","r","t","a","i","n","m","e","n","t">>
     >>],
    \* "Media & Entertainment": "media tech", "streaming platform", "content creation", "digital media", "broadcasting"
    [industry |-> <<"M","e","d","i","a"," ","&"," ","E","n","t","e","r","t","a","i","n","m","e","n","t">>,
     keywords |-> <<
       <<"m","e","d","i","a"," ","t","e","c","h">>,
       <<"s","t","r","e","a","m","i","n","g"," ","p","l","a","t","f","o","r","m">>,
       <<"c","o","n","t","e","n","t"," ","c","r","e","a","t","i","o","n">>,
       <<"d","i","g","i","t","a","l"," ","m","e","d","i","a">>,
       <<"b","r","o","a","d","c","a","s","t","i","n","g">>
     >>],
    \* "Biotechnology": "biotech", "biotechnology", "life sciences", "genomics", "drug discovery"
    [industry |-> <<"B","i","o","t","e","c","h","n","o","l","o","g","y">>,
     keywords |-> <<
       <<"b","i","o","t","e","c","h">>,
       <<"b","i","o","t","e","c","h","n","o","l","o","g","y">>,
       <<"l","i","f","e"," ","s","c","i","e","n","c","e","s">>,
       <<"g","e","n","o","m","i","c","s">>,
       <<"d","r","u","g"," ","d","i","s","c","o","v","e","r","y">>
     >>],
    \* "Consulting": "consulting", "advisory services", "strategy consulting", "business services"
    [industry |-> <<"C","o","n","s","u","l","t","i","n","g">>,
     keywords |-> <<
       <<"c","o","n","s","u","l","t","i","n","g">>,
       <<"a","d","v","i","s","o","r","y"," ","s","e","r","v","i","c","e","s">>,
       <<"s","t","r","a","t","e","g","y"," ","c","o","n","s","u","l","t","i","n","g">>,
       <<"b","u","s","i","n","e","s","s"," ","s","e","r","v","i","c","e","s">>
     >>],
    \* "Manufacturing": "manufacturing", "industrial", "robotics", "automation", "production"
    [industry |-> <<"M","a","n","u","f","a","c","t","u","r","i","n","g">>,
     keywords |-> <<
       <<"m","a","n","u","f","a","c","t","u","r","i","n","g">>,
       <<"i","n","d","u","s","t","r","i","a","l">>,
       <<"r","o","b","o","t","i","c","s">>,
       <<"a","u","t","o","m","a","t","i","o","n">>,
       <<"p","r","o","d","u","c","t","i","o","n">>
     >>],
    \* "IT Services": "information technology and services", "it services", "managed services", "software development services", "system integration"
    [industry |-> <<"I","T"," ","S","e","r","v","i","c","e","s">>,
     keywords |-> <<
       <<"i","n","f","o","r","m","a","t","i","o","n"," ","t","e","c","h","n","o","l","o","g","y"," ","a","n","d"," ","s","e","r","v","i","c","e","s">>,
       <<"i","t"," ","s","e","r","v","i","c","e","s">>,
       <<"m","a","n","a","g","e","d"," ","s","e","r","v","i","c","e","s">>,
       <<"s","o","f","t","w","a","r","e"," ","d","e","v","e","l","o","p","m","e","n","t"," ","s","e","r","v","i","c","e","s">>,
       <<"s","y","s","t","e","m"," ","i","n","t","e","g","r","a","t","i","o","n">>
     >>]
  >>

Other == <<"O","t","h","e","r">>

IndustryLabels == {industry_keywords[i].industry : i \in 1..Len(industry_keywords)}

\* re.sub(r'[^a-z0-9\s]', ' ', text): every other character becomes one space
RegexClean(text) ==
  [i \in 1..Len(text) |->
     IF \/ text[i] \in LowerSet
        \/ text[i] \in Digits
        \/ text[i] \in Whitespace
     THEN text[i]
     ELSE " "]

\* a faulty variant: line 16's lower() left out
NormalizeTextNoLower(company_name, description) ==
  RegexClean(company_name \o <<" ">> \o description)

\* lines 16 and 47: the text the keywords are looked up in
NormalizeText(company_name, description) ==
  RegexClean(Lower(company_name \o <<" ">> \o description))

RECURSIVE KeywordScore(_, _, _)
\* lines 52-56: the sum, over keywords k..end that occur, of their counts
KeywordScore(keywords, text, k) ==
  IF k > Len(keywords) THEN 0
  ELSE (IF Contains(text, keywords[k]) THEN Count(text, keywords[k]) ELSE 0)
       + KeywordScore(keywords, text, k + 1)

Score(entry, text) == KeywordScore(entry.keywords, text, 1)

\* lines 50-58: matched_industries, a dict in insertion (table) order
MatchedIndustries(text) ==
  SelectSeq([i \in 1..Len(industry_keywords) |->
               [industry |-> industry_keywords[i].industry,
                index    |-> i,
                score    |-> Score(industry_keywords[i], text)]],
            LAMBDA m : m.score > 0)

RECURSIVE StableSortDesc(_)
\* sorted(items, key=score, reverse=True): stable, equal scores keep their order
StableSortDesc(items) ==
  IF items = <<>> THEN <<>>
  ELSE LET rest == StableSortDesc(SubSeq(items, 1, Len(items) - 1))
           x    == items[Len(items)]
           \* x goes after every element whose score is >= its own
           pos  == Cardinality({j \in 1..Len(rest) : rest[j].score >= x.score})
       IN  SubSeq(rest, 1, pos) \o <<x>> \o SubSeq(rest, pos + 1, Len(rest))

RECURSIVE SortDescTiesReversed(_)
\* a faulty variant: an unstable sort that puts the later of two equal scores first
SortDescTiesReversed(items) ==
  IF items = <<>> THEN <<>>
  ELSE LET rest == SortDescTiesReversed(SubSeq(items, 1, Len(items) - 1))
           x    == items[Len(items)]
           pos  == Cardinality({j \in 1..Len(rest) : rest[j].score > x.score})
       IN  SubSeq(rest, 1, pos) \o <<x>> \o SubSeq(rest, pos + 1, Len(rest))

\* line 67
SortedMatches(matched) == StableSortDesc(matched)

\* a faulty variant: the denominator the comment of line 64 describes
KeywordsListed(entry, text) == Len(entry.keywords)

\* line 74: sum(text.count(kw) for kw in industry_keywords[best] if kw in text)
TotalPossibleScore(entry, text) == KeywordScore(entry.keywords, text, 1)

\* lines 75-78: the double best_score / total, or 0.0
Ratio(best_score, total) ==
  IF total = 0 THEN [q |-> <<0, 1>>, plus |-> 0]
  ELSE [q |-> <<best_score, total>>, plus |-> 0]

\* 1.0
One == [q |-> <<1, 1>>, plus |-> 0]

\* the real number the double x approximates, as <<numerator, denominator>>
ExactValue(x) ==
  IF x.plus = 0 THEN x.q ELSE <<5 * x.q[1] + x.q[2], 5 * x.q[2]>>

\* min(x, 1.0): the double is >= 1.0 exactly when the real number is
Min1(x) == IF ExactValue(x)[1] >= ExactValue(x)[2] THEN One ELSE x

\* line 82: the boost condition on description.lower()
BoostApplies(best_industry, description) ==
  \/ Contains(Lower(description), Lower(best_industry))
  \/ Contains(Lower(best_industry), Lower(description))

\* a faulty variant: the boost without the caps of lines 83 and 85
BoostUncapped(confidence, best_industry, description) ==
  IF BoostApplies(best_industry, description)
  THEN [confidence EXCEPT !.plus = 1]
  ELSE confidence

\* lines 81-85: + 0.2 when the boost applies, capped at 1.0, then capped again
BoostAndCap(confidence, best_industry, description) ==
  LET boosted == IF BoostApplies(best_industry, description)
                 THEN Min1([confidence EXCEPT !.plus = 1])
                 ELSE confidence
  IN  Min1(boosted)

\* the k in 0..99 for which round((2k + 1) / 200, 2) is (k + 1) / 100: the
\* double nearest to (2k + 1) / 200 lies above the midpoint of its two
\* neighbouring hundredths
HalfwayRoundsUp ==
  { 0, 2, 3, 5, 6, 8, 9, 11, 13, 16, 19, 22, 25, 26, 27, 31,
    32, 33, 37, 38, 39, 40, 44, 45, 46, 50, 51, 52, 53, 54, 55, 63,
    64, 65, 66, 67, 68, 75, 76, 77, 78, 79, 80, 87, 88, 89, 90, 91,
    92, 93 }

\* the k in 20..119 for which round(c + 0.2, 2) is (k + 1) / 100, c being
\* the double nearest to (2k - 39) / 200: the sum of the two doubles lies
\* above the midpoint (2k + 1) / 200
BoostedHalfwayRoundsUp ==
  { 20, 21, 22, 23, 25, 26, 27, 28, 29, 31, 32, 33, 37, 38, 39, 40,
    41, 42, 44, 45, 46, 47, 50, 51, 52, 53, 63, 64, 65, 66, 67, 68,
    69, 70, 71, 72, 73, 74, 75, 87, 88, 89, 90, 91, 92, 93, 94, 95,
    96, 97, 98, 99, 100, 113, 114, 115, 116, 117, 118, 119 }

\* line 87: round(confidence, 2), in hundredths, of a double in [0, 1.2]
Round2(c) ==
  LET e == ExactValue(c)
      q == (100 * e[1]) \div e[2]
      r == (100 * e[1]) % e[2]
  IN  IF 2 * r < e[2] THEN q
      ELSE IF 2 * r > e[2] THEN q + 1
      ELSE IF c.plus = 0
           THEN (IF q \in HalfwayRoundsUp THEN q + 1 ELSE q)
           ELSE (IF q \in BoostedHalfwayRoundsUp THEN q + 1 ELSE q)

\* lines 4-87
classify_company_keyword_based(company_name, description) ==
  LET text    == NormalizeText(company_name, description)
      matched == MatchedIndustries(text)
  IN  IF matched = <<>>
      THEN [label |-> Other, confidence |-> 0]
      ELSE LET sorted_matches == SortedMatches(matched)
               best           == sorted_matches[1]
               entry          == industry_keywords[best.index]
               total          == TotalPossibleScore(entry, text)
               confidence     == Ratio(best.score, total)
           IN  [label      |-> best.industry,
                confidence |-> Round2(BoostAndCap(confidence, best.industry,
                                                  description))]

----------------------------------------------------------------------------
(* Inputs of the keyword classifier.                                        *)

MaxDescParts == 2

KwNames ==
  { <<>>,
    <<"A","c","m","e"," ","I","n","c",".">>,        \* "Acme Inc."
    <<"S","a","a","S">>,                            \* "SaaS"
    <<"l","e","g","a","l"," ","A","I">> }           \* "legal AI"

DescParts ==
  { <<"s","a","a","s">>,                            \* "saas"
    <<"a","a","s">>,                                \* "aas"
    <<"C","R","M">>,                                \* "CRM"
    <<"b","i","o","t","e","c","h">>,                \* "biotech"
    <<"n","o","l","o","g","y">>,                    \* "nology"
    <<"D","o","m","a","i","n",":"," ","a","c","m","e",".","c","o","m">>,
                                                    \* "Domain: acme.com"
    <<"H","R","-","T","e","c","h">>,                \* "HR-Tech"
    <<"p","a","y","m","e","n","t">>,                \* "payment"
    <<" ">> }

RECURSIVE Concat(_)
Concat(parts) ==
  IF parts = <<>> THEN <<>> ELSE Head(parts) \o Concat(Tail(parts))

Descriptions ==
  { Concat(ps) : ps \in UNION { [1..n -> DescParts] : n \in 0..MaxDescParts } }

\* every keyword of the table, used as a description of its own
KeywordTexts ==
  UNION { { industry_keywords[i].keywords[k] :
              k \in 1..Len(industry_keywords[i].keywords) } :
          i \in 1..Len(industry_keywords) }

NoKwResult == [called |-> FALSE, label |-> <<>>, confidence |-> 0]


----------------------------------------------------------------------------
(* Gemini adapter, src/src/llm_classifier.py.                               *)

\* "Error: Gemini not initialized"
ErrorNotInitialized ==
  <<"E","r","r","o","r",":"," ","G","e","m","i","n","i"," ","n","o","t"," ",
    "i","n","i","t","i","a","l","i","z","e","d">>

\* "Error (API Failed)"
ErrorApiFailed ==
  <<"E","r","r","o","r"," ","(","A","P","I"," ","F","a","i","l","e","d",")">>

\* line 58
allowed_industries ==
  <<
    <<"a","c","c","o","u","n","t","i","n","g">>,  \* 1 "accounting"
    <<"a","i","r","l","i","n","e","s","/","a","v","i","a","t","i","o","n">>,  \* 2 "airlines/aviation"
    <<"a","p","p","a","r","e","l"," ","&"," ","f","a","s","h","i","o","n">>,  \* 3 "apparel & fashion"
    <<"a","r","t","s"," ","a","n","d"," ","c","r","a","f","t","s">>,  \* 4 "arts and crafts"
    <<"a","u","t","o","m","o","t","i","v","e">>,  \* 5 "automotive"
    <<"a","v","i","a","t","i","o","n"," ","&"," ","a","e","r","o","s","p","a","c","e">>,  \* 6 "aviation & aerospace"
    <<"b","a","n","k","i","n","g">>,  \* 7 "banking"
    <<"b","i","o","t","e","c","h","n","o","l","o","g","y">>,  \* 8 "biotechnology"
    <<"b","r","o","a","d","c","a","s","t"," ","m","e","d","i","a">>,  \* 9 "broadcast media"
    <<"b","u","i","l","d","i","n","g"," ","m","a","t","e","r","i","a","l","s">>,  \* 10 "building materials"
    <<"b","u","s","i","n","e","s","s"," ","s","u","p","p","l","i","e","s"," ","a","n","d"," ","e","q","u","i","p","m","e","n","t">>,  \* 11 "business supplies and equipment"
    <<"c","a","p","i","t","a","l"," ","m","a","r","k","e","t","s">>,  \* 12 "capital markets"
    <<"c","h","e","m","i","c","a","l","s">>,  \* 13 "chemicals"
    <<"c","i","v","i","c"," ","&"," ","s","o","c","i","a","l"," ","o","r","g","a","n","i","z","a","t","i","o","n">>,  \* 14 "civic & social organization"
    <<"c","i","v","i","l"," ","e","n","g","i","n","e","e","r","i","n","g">>,  \* 15 "civil engineering"
    <<"c","o","m","m","e","r","c","i","a","l"," ","r","e","a","l"," ","e","s","t","a","t","e">>,  \* 16 "commercial real estate"
    <<"c","o","m","p","u","t","e","r"," ","h","a","r","d","w","a","r","e">>,  \* 17 "computer hardware"
    <<"c","o","m","p","u","t","e","r"," ","n","e","t","w","o","r","k","i","n","g">>,  \* 18 "computer networking"
    <<"c","o","m","p","u","t","e","r"," ","s","o","f","t","w","a","r","e">>,  \* 19 "computer software"
    <<"c","o","n","s","t","r","u","c","t","i","o","n">>,  \* 20 "construction"
    <<"c","o","n","s","u","m","e","r"," ","e","l","e","c","t","r","o","n","i","c","s">>,  \* 21 "consumer electronics"
    <<"c","o","n","s","u","m","e","r"," ","g","o","o","d","s">>,  \* 22 "consumer goods"
    <<"c","o","n","s","u","m","e","r"," ","s","e","r","v","i","c","e","s">>,  \* 23 "consumer services"
    <<"c","o","s","m","e","t","i","c","s">>,  \* 24 "cosmetics"
    <<"d","e","f","e","n","s","e"," ","&"," ","s","p","a","c","e">>,  \* 25 "defense & space"
    <<"d","e","s","i","g","n">>,  \* 26 "design"
    <<"e","d","u","c","a","t","i","o","n"," ","m","a","n","a","g","e","m","e","n","t">>,  \* 27 "education management"
    <<"e","l","e","c","t","r","i","c","a","l","/","e","l","e","c","t","r","o","n","i","c"," ","m","a","n","u","f","a","c","t","u","r","i","n","g">>,  \* 28 "electrical/electronic manufacturing"
    <<"e","n","t","e","r","t","a","i","n","m","e","n","t">>,  \* 29 "entertainment"
    <<"e","n","v","i","r","o","n","m","e","n","t","a","l"," ","s","e","r","v","i","c","e","s">>,  \* 30 "environmental services"
    <<"f","a","c","i","l","i","t","i","e","s"," ","s","e","r","v","i","c","e","s">>,  \* 31 "facilities services"
    <<"f","a","r","m","i","n","g">>,  \* 32 "farming"
    <<"f","i","n","a","n","c","i","a","l"," ","s","e","r","v","i","c","e","s">>,  \* 33 "financial services"
    <<"f","o","o","d"," ","&"," ","b","e","v","e","r","a","g","e","s">>,  \* 34 "food & beverages"
    <<"f","o","o","d"," ","p","r","o","d","u","c","t","i","o","n">>,  \* 35 "food production"
    <<"g","l","a","s","s",","," ","c","e","r","a","m","i","c","s"," ","&"," ","c","o","n","c","r","e","t","e">>,  \* 36 "glass, ceramics & concrete"
    <<"g","o","v","e","r","n","m","e","n","t"," ","a","d","m","i","n","i","s","t","r","a","t","i","o","n">>,  \* 37 "government administration"
    <<"g","r","a","p","h","i","c"," ","d","e","s","i","g","n">>,  \* 38 "graphic design"
    <<"h","e","a","l","t","h",","," ","w","e","l","l","n","e","s","s"," ","a","n","d"," ","f","i","t","n","e","s","s">>,  \* 39 "health, wellness and fitness"
    <<"h","i","g","h","e","r"," ","e","d","u","c","a","t","i","o","n">>,  \* 40 "higher education"
    <<"h","o","s","p","i","t","a","l"," ","&"," ","h","e","a","l","t","h"," ","c","a","r","e">>,  \* 41 "hospital & health care"
    <<"h","o","s","p","i","t","a","l","i","t","y">>,  \* 42 "hospitality"
    <<"h","u","m","a","n"," ","r","e","s","o","u","r","c","e","s">>,  \* 43 "human resources"
    <<"i","n","d","i","v","i","d","u","a","l"," ","&"," ","f","a","m","i","l","y"," ","s","e","r","v","i","c","e","s">>,  \* 44 "individual & family services"
    <<"i","n","d","u","s","t","r","i","a","l"," ","a","u","t","o","m","a","t","i","o","n">>,  \* 45 "industrial automation"
    <<"i","n","f","o","r","m","a","t","i","o","n"," ","s","e","r","v","i","c","e","s">>,  \* 46 "information services"
    <<"i","n","f","o","r","m","a","t","i","o","n"," ","t","e","c","h","n","o","l","o","g","y"," ","a","n","d"," ","s","e","r","v","i","c","e","s">>,  \* 47 "information technology and services"
    <<"i","n","s","u","r","a","n","c","e">>,  \* 48 "insurance"
    <<"i","n","t","e","r","n","a","t","i","o","n","a","l"," ","a","f","f","a","i","r","s">>,  \* 49 "international affairs"
    <<"i","n","t","e","r","n","a","t","i","o","n","a","l"," ","t","r","a","d","e"," ","a","n","d"," ","d","e","v","e","l","o","p","m","e","n","t">>,  \* 50 "international trade and development"
    <<"i","n","t","e","r","n","e","t">>,  \* 51 "internet"
    <<"i","n","v","e","s","t","m","e","n","t"," ","b","a","n","k","i","n","g">>,  \* 52 "investment banking"
    <<"j","u","d","i","c","i","a","r","y">>,  \* 53 "judiciary"
    <<"l","a","w"," ","e","n","f","o","r","c","e","m","e","n","t">>,  \* 54 "law enforcement"
    <<"l","a","w"," ","p","r","a","c","t","i","c","e">>,  \* 55 "law practice"
    <<"l","e","g","a","l"," ","s","e","r","v","i","c","e","s">>,  \* 56 "legal services"
    <<"l","e","g","i","s","l","a","t","i","v","e"," ","o","f","f","i","c","e">>,  \* 57 "legislative office"
    <<"l","e","i","s","u","r","e",","," ","t","r","a","v","e","l"," ","&"," ","t","o","u","r","i","s","m">>,  \* 58 "leisure, travel & tourism"
    <<"l","o","g","i","s","t","i","c","s"," ","a","n","d"," ","s","u","p","p","l","y"," ","c","h","a","i","n">>,  \* 59 "logistics and supply chain"
    <<"l","u","x","u","r","y"," ","g","o","o","d","s"," ","&"," ","j","e","w","e","l","r","y">>,  \* 60 "luxury goods & jewelry"
    <<"m","a","c","h","i","n","e","r","y">>,  \* 61 "machinery"
    <<"m","a","n","a","g","e","m","e","n","t"," ","c","o","n","s","u","l","t","i","n","g">>,  \* 62 "management consulting"
    <<"m","a","r","k","e","t","i","n","g"," ","a","n","d"," ","a","d","v","e","r","t","i","s","i","n","g">>,  \* 63 "marketing and advertising"
    <<"m","e","c","h","a","n","i","c","a","l"," ","o","r"," ","i","n","d","u","s","t","r","i","a","l"," ","e","n","g","i","n","e","e","r","i","n","g">>,  \* 64 "mechanical or industrial engineering"
    <<"m","e","d","i","a"," ","p","r","o","d","u","c","t","i","o","n">>,  \* 65 "media production"
    <<"m","e","d","i","c","a","l"," ","d","e","v","i","c","e","s">>,  \* 66 "medical devices"
    <<"m","e","d","i","c","a","l"," ","p","r","a","c","t","i","c","e">>,  \* 67 "medical practice"
    <<"m","e","n","t","a","l"," ","h","e","a","l","t","h"," ","c","a","r","e">>,  \* 68 "mental health care"
    <<"m","i","l","i","t","a","r","y">>,  \* 69 "military"
    <<"m","i","n","i","n","g"," ","&"," ","m","e","t","a","l","s">>,  \* 70 "mining & metals"
    <<"m","o","t","i","o","n"," ","p","i","c","t","u","r","e","s"," ","a","n","d"," ","f","i","l","m">>,  \* 71 "motion pictures and film"
    <<"m","u","s","i","c">>,  \* 72 "music"
    <<"n","o","n","-","p","r","o","f","i","t"," ","o","r","g","a","n","i","z","a","t","i","o","n"," ","m","a","n","a","g","e","m","e","n","t">>,  \* 73 "non-profit organization management"
    <<"o","i","l"," ","&"," ","e","n","e","r","g","y">>,  \* 74 "oil & energy"
    <<"o","u","t","s","o","u","r","c","i","n","g","/","o","f","f","s","h","o","r","i","n","g">>,  \* 75 "outsourcing/offshoring"
    <<"p","a","c","k","a","g","e","/","f","r","e","i","g","h","t"," ","d","e","l","i","v","e","r","y">>,  \* 76 "package/freight delivery"
    <<"p","a","c","k","a","g","i","n","g"," ","a","n","d"," ","c","o","n","t","a","i","n","e","r","s">>,  \* 77 "packaging and containers"
    <<"p","a","p","e","r"," ","&"," ","f","o","r","e","s","t"," ","p","r","o","d","u","c","t","s">>,  \* 78 "paper & forest products"
    <<"p","h","a","r","m","a","c","e","u","t","i","c","a","l","s">>,  \* 79 "pharmaceuticals"
    <<"p","h","i","l","a","n","t","h","r","o","p","y">>,  \* 80 "philanthropy"
    <<"p","h","o","t","o","g","r","a","p","h","y">>,  \* 81 "photography"
    <<"p","r","i","m","a","r","y","/","s","e","c","o","n","d","a","r","y"," ","e","d","u","c","a","t","i","o","n">>,  \* 82 "primary/secondary education"
    <<"p","r","i","n","t","i","n","g">>,  \* 83 "printing"
    <<"p","r","o","f","e","s","s","i","o","n","a","l"," ","t","r","a","i","n","i","n","g"," ","&"," ","c","o","a","c","h","i","n","g">>,  \* 84 "professional training & coaching"
    <<"p","u","b","l","i","c"," ","p","o","l","i","c","y">>,  \* 85 "public policy"
    <<"p","u","b","l","i","c"," ","r","e","l","a","t","i","o","n","s"," ","a","n","d"," ","c","o","m","m","u","n","i","c","a","t","i","o","n","s">>,  \* 86 "public relations and communications"
    <<"p","u","b","l","i","s","h","i","n","g">>,  \* 87 "publishing"
    <<"r","a","i","l","r","o","a","d"," ","m","a","n","u","f","a","c","t","u","r","e">>,  \* 88 "railroad manufacture"
    <<"r","e","a","l"," ","e","s","t","a","t","e">>,  \* 89 "real estate"
    <<"r","e","n","e","w","a","b","l","e","s"," ","&"," ","e","n","v","i","r","o","n","m","e","n","t">>,  \* 90 "renewables & environment"
    <<"r","e","s","e","a","r","c","h">>,  \* 91 "research"
    <<"r","e","s","t","a","u","r","a","n","t","s">>,  \* 92 "restaurants"
    <<"r","e","t","a","i","l">>,  \* 93 "retail"
    <<"s","e","c","u","r","i","t","y"," ","a","n","d"," ","i","n","v","e","s","t","i","g","a","t","i","o","n","s">>,  \* 94 "security and investigations"
    <<"s","e","m","i","c","o","n","d","u","c","t","o","r","s">>,  \* 95 "semiconductors"
    <<"s","p","o","r","t","i","n","g"," ","g","o","o","d","s">>,  \* 96 "sporting goods"
    <<"s","t","a","f","f","i","n","g"," ","a","n","d"," ","r","e","c","r","u","i","t","i","n","g">>,  \* 97 "staffing and recruiting"
    <<"s","u","p","e","r","m","a","r","k","e","t","s">>,  \* 98 "supermarkets"
    <<"t","e","l","e","c","o","m","m","u","n","i","c","a","t","i","o","n","s">>,  \* 99 "telecommunications"
    <<"t","e","x","t","i","l","e","s">>,  \* 100 "textiles"
    <<"t","o","b","a","c","c","o">>,  \* 101 "tobacco"
    <<"t","r","a","n","s","l","a","t","i","o","n"," ","a","n","d"," ","l","o","c","a","l","i","z","a","t","i","o","n">>,  \* 102 "translation and localization"
    <<"t","r","a","n","s","p","o","r","t","a","t","i","o","n","/","t","r","u","c","k","i","n","g","/","r","a","i","l","r","o","a","d">>,  \* 103 "transportation/trucking/railroad"
    <<"u","t","i","l","i","t","i","e","s">>,  \* 104 "utilities"
    <<"w","h","o","l","e","s","a","l","e">>,  \* 105 "wholesale"
    <<"w","i","n","e"," ","a","n","d"," ","s","p","i","r","i","t","s">>,  \* 106 "wine and spirits"
    <<"w","i","r","e","l","e","s","s">>,  \* 107 "wireless"
    <<"w","r","i","t","i","n","g"," ","a","n","d"," ","e","d","i","t","i","n","g">>,  \* 108 "writing and editing"
    <<"O","t","h","e","r">>  \* 109 "Other"
  >>

\* lines 65-71
examples ==
  <<
    \* "Company: ibm. Description: Domain: ibm.c..." -> "information technology and services"
    [input  |-> <<"C","o","m","p","a","n","y",":"," ","i","b","m","."," ","D","e","s","c","r","i","p","t","i","o","n",":"," ","D","o","m","a","i","n",":"," ","i","b","m",".","c","o","m","."," ","F","o","u","n","d","e","d",":"," ","1","9","1","1","."," ","I","n","d","u","s","t","r","y",":"," ","i","n","f","o","r","m","a","t","i","o","n"," ","t","e","c","h","n","o","l","o","g","y"," ","a","n","d"," ","s","e","r","v","i","c","e","s","."," ","L","o","c","a","l","i","t","y",":"," ","n","e","w"," ","y","o","r","k",","," ","n","e","w"," ","y","o","r","k",","," ","u","n","i","t","e","d"," ","s","t","a","t","e","s","."," ","C","o","u","n","t","r","y",":"," ","u","n","i","t","e","d"," ","s","t","a","t","e","s","."," ","L","i","n","k","e","d","I","n"," ","U","R","L",":"," ","l","i","n","k","e","d","i","n",".","c","o","m","/","c","o","m","p","a","n","y","/","i","b","m",".">>,
     output |-> <<"i","n","f","o","r","m","a","t","i","o","n"," ","t","e","c","h","n","o","l","o","g","y"," ","a","n","d"," ","s","e","r","v","i","c","e","s">>],
    \* "Company: us army. Description: Domain: g..." -> "military"
    [input  |-> <<"C","o","m","p","a","n","y",":"," ","u","s"," ","a","r","m","y","."," ","D","e","s","c","r","i","p","t","i","o","n",":"," ","D","o","m","a","i","n",":"," ","g","o","a","r","m","y",".","c","o","m","."," ","F","o","u","n","d","e","d",":"," ","1","8","0","0","."," ","I","n","d","u","s","t","r","y",":"," ","m","i","l","i","t","a","r","y","."," ","L","o","c","a","l","i","t","y",":"," ","a","l","e","x","a","n","d","r","i","a",","," ","v","i","r","g","i","n","i","a",","," ","u","n","i","t","e","d"," ","s","t","a","t","e","s","."," ","C","o","u","n","t","r","y",":"," ","u","n","i","t","e","d"," ","s","t","a","t","e","s","."," ","L","i","n","k","e","d","I","n"," ","U","R","L",":"," ","l","i","n","k","e","d","i","n",".","c","o","m","/","c","o","m","p","a","n","y","/","u","s","-","a","r","m","y",".">>,
     output |-> <<"m","i","l","i","t","a","r","y">>],
    \* "Company: ey. Description: Domain: ey.com..." -> "accounting"
    [input  |-> <<"C","o","m","p","a","n","y",":"," ","e","y","."," ","D","e","s","c","r","i","p","t","i","o","n",":"," ","D","o","m","a","i","n",":"," ","e","y",".","c","o","m","."," ","F","o","u","n","d","e","d",":"," ","1","9","8","9","."," ","I","n","d","u","s","t","r","y",":"," ","a","c","c","o","u","n","t","i","n","g","."," ","L","o","c","a","l","i","t","y",":"," ","l","o","n","d","o","n",","," ","g","r","e","a","t","e","r"," ","l","o","n","d","o","n",","," ","u","n","i","t","e","d"," ","k","i","n","g","d","o","m","."," ","C","o","u","n","t","r","y",":"," ","u","n","i","t","e","d"," ","k","i","n","g","d","o","m","."," ","L","i","n","k","e","d","I","n"," ","U","R","L",":"," ","l","i","n","k","e","d","i","n",".","c","o","m","/","c","o","m","p","a","n","y","/","e","r","n","s","t","a","n","d","y","o","u","n","g",".">>,
     output |-> <<"a","c","c","o","u","n","t","i","n","g">>],
    \* "Company: walmart. Description: Domain: w..." -> "retail"
    [input  |-> <<"C","o","m","p","a","n","y",":"," ","w","a","l","m","a","r","t","."," ","D","e","s","c","r","i","p","t","i","o","n",":"," ","D","o","m","a","i","n",":"," ","w","a","l","m","a","r","t","c","a","r","e","e","r","s",".","c","o","m","."," ","F","o","u","n","d","e","d",":"," ","1","9","6","2","."," ","I","n","d","u","s","t","r","y",":"," ","r","e","t","a","i","l","."," ","L","o","c","a","l","i","t","y",":"," ","w","i","t","h","e","e",","," ","w","i","s","c","o","n","s","i","n",","," ","u","n","i","t","e","d"," ","s","t","a","t","e","s","."," ","C","o","u","n","t","r","y",":"," ","u","n","i","t","e","d"," ","s","t","a","t","e","s","."," ","L","i","n","k","e","d","I","n"," ","U","R","L",":"," ","l","i","n","k","e","d","i","n",".","c","o","m","/","c","o","m","p","a","n","y","/","w","a","l","m","a","r","t",".">>,
     output |-> <<"r","e","t","a","i","l">>],
    \* "Company: microsoft. Description: Domain:..." -> "computer software"
    [input  |-> <<"C","o","m","p","a","n","y",":"," ","m","i","c","r","o","s","o","f","t","."," ","D","e","s","c","r","i","p","t","i","o","n",":"," ","D","o","m","a","i","n",":"," ","m","i","c","r","o","s","o","f","t",".","c","o","m","."," ","F","o","u","n","d","e","d",":"," ","1","9","7","5","."," ","I","n","d","u","s","t","r","y",":"," ","c","o","m","p","u","t","e","r"," ","s","o","f","t","w","a","r","e","."," ","L","o","c","a","l","i","t","y",":"," ","r","e","d","m","o","n","d",","," ","w","a","s","h","i","n","g","t","o","n",","," ","u","n","i","t","e","d"," ","s","t","a","t","e","s","."," ","C","o","u","n","t","r","y",":"," ","u","n","i","t","e","d"," ","s","t","a","t","e","s","."," ","L","i","n","k","e","d","I","n"," ","U","R","L",":"," ","l","i","n","k","e","d","i","n",".","c","o","m","/","c","o","m","p","a","n","y","/","m","i","c","r","o","s","o","f","t",".">>,
     output |-> <<"c","o","m","p","u","t","e","r"," ","s","o","f","t","w","a","r","e">>]
  >>

\* line 35: self._api_key_set and self.model is not None
is_initialized == api_key_set /\ model # "None"

\* line 13: `not api_key` holds for None and for the empty string
KeyMissing(key) == key \in {"unset", "empty"}

\* a faulty variant: line 31 left out, a failed setup keeps the old flag
InitResultStaleFlag(key, setup, cur_model, cur_flag) ==
  IF KeyMissing(key)
  THEN [model |-> cur_model, api_key_set |-> FALSE, returned |-> FALSE]
  ELSE IF setup = "ok"
       THEN [model |-> "gemini-1.5-flash", api_key_set |-> TRUE,
             returned |-> TRUE]
       ELSE [model |-> cur_model, api_key_set |-> cur_flag, returned |-> FALSE]

\* lines 10-32: the fields and the return value after initialize_gemini();
\* setup is "ok", or "raises" when genai.configure / GenerativeModel raises
InitResult(key, setup, cur_model, cur_flag) ==
  IF KeyMissing(key)
  THEN [model |-> cur_model, api_key_set |-> FALSE, returned |-> FALSE]
  ELSE IF setup = "ok"
       THEN [model |-> "gemini-1.5-flash", api_key_set |-> TRUE,
             returned |-> TRUE]
       ELSE [model |-> cur_model, api_key_set |-> FALSE, returned |-> FALSE]

\* line 75: the hint is given, non-blank and not the fallback label
HintUsable(has_existing, existing_industry) ==
  /\ has_existing
  /\ existing_industry # <<>>
  /\ Strip(existing_industry) # <<>>
  /\ existing_industry # Other

\* line 77
ExampleDescription(company_name, description) ==
  <<"C","o","m","p","a","n","y",":"," ">> \o company_name
  \o <<"."," ","D","e","s","c","r","i","p","t","i","o","n",":"," ">>
  \o description

\* a faulty variant: the hint example appended instead of inserted at 0
PromptExamplesAppended(company_name, description, has_existing, existing_industry) ==
  IF /\ HintUsable(has_existing, existing_industry)
     /\ ~ \E i \in 1..Len(examples) :
            Lower(examples[i].output) = Lower(existing_industry)
  THEN examples \o <<[input  |-> ExampleDescription(company_name, description),
                      output |-> Strip(existing_industry)]>>
  ELSE examples

\* lines 73-80: the few-shot examples the prompt lists
PromptExamples(company_name, description, has_existing, existing_industry) ==
  IF /\ HintUsable(has_existing, existing_industry)
     /\ ~ \E i \in 1..Len(examples) :
            Lower(examples[i].output) = Lower(existing_industry)
  THEN <<[input  |-> ExampleDescription(company_name, description),
          output |-> Strip(existing_industry)]>> \o examples
  ELSE examples

\* allowed.lower() of every entry
allowed_lower ==
  [i \in 1..Len(allowed_industries) |-> Lower(allowed_industries[i])]

\* lines 109-117: the two tests the loop makes on entry i, on lower-cased text
EntryMatches(i, predicted_lower) ==
  \/ allowed_lower[i] = predicted_lower
  \/ Contains(predicted_lower, allowed_lower[i])
  \/ Contains(allowed_lower[i], predicted_lower)

\* a faulty variant: an exact match anywhere in the list wins over an
\* earlier substring match
FirstMatchExactPreferred(predicted_lower) ==
  LET exact == {i \in 1..Len(allowed_industries) :
                  allowed_lower[i] = predicted_lower}
      hits  == {i \in 1..Len(allowed_industries) :
                  EntryMatches(i, predicted_lower)}
  IN  IF exact # {} THEN CHOOSE i \in exact : \A j \in exact : i <= j
      ELSE IF hits = {} THEN 0
      ELSE CHOOSE i \in hits : \A j \in hits : i <= j

\* the first index of the list the loop accepts, 0 when it accepts none
FirstMatch(predicted_lower) ==
  LET hits == {i \in 1..Len(allowed_industries) :
                 EntryMatches(i, predicted_lower)}
  IN  IF hits = {} THEN 0 ELSE CHOOSE i \in hits : \A j \in hits : i <= j

\* lines 102-122: strip the response, take the first entry the loop accepts
NormalizeResponse(raw) ==
  LET predicted_industry == Strip(raw)
      found == FirstMatch(Lower(predicted_industry))
  IN  IF found = 0
      THEN [label |-> Other, confidence |-> 50]
      ELSE [label |-> allowed_industries[found], confidence |-> 100]

\* a faulty variant: one retry after a failed call
GeminiReplyRetry(ready, outcome) ==
  IF ~ready
  THEN [label |-> ErrorNotInitialized, confidence |-> 0, calls |-> 0]
  ELSE IF outcome.kind = "ok"
       THEN NormalizeResponse(outcome.text) @@ [calls |-> 1]
       ELSE [label |-> ErrorApiFailed, confidence |-> 0, calls |-> 2]

\* a faulty variant: the guard of lines 54-55 left out
GeminiReplyNoGuard(ready, outcome) ==
  IF outcome.kind = "ok"
  THEN NormalizeResponse(outcome.text) @@ [calls |-> 1]
  ELSE [label |-> ErrorApiFailed, confidence |-> 0, calls |-> 1]

\* lines 54-55 and 97-126: what classify_company_gemini returns and how many
\* times it invokes generate_content; outcome is what the service does
GeminiReply(ready, outcome) ==
  IF ~ready
  THEN [label |-> ErrorNotInitialized, confidence |-> 0, calls |-> 0]
  ELSE IF outcome.kind = "ok"
       THEN NormalizeResponse(outcome.text) @@ [calls |-> 1]
       ELSE [label |-> ErrorApiFailed, confidence |-> 0, calls |-> 1]

----------------------------------------------------------------------------
(* Data loader, src/src/data_loader.py.                                     *)
(*                                                                          *)
(* A cell of a DataFrame is a record [kind, text, value]: a missing value   *)
(* (NaN), a string, or an integer.  A row is a function from the column     *)
(* names it has (row.index) to cells.                                       *)

NaN == [kind |-> "nan", text |-> <<>>, value |-> 0]

StrCell(t) == [kind |-> "str", text |-> t, value |-> 0]

IntCell(n) == [kind |-> "int", text |-> <<>>, value |-> n]

DigitChars == <<"0","1","2","3","4","5","6","7","8","9">>

\* str() of a non-negative integer
RECURSIVE IntToStr(_)
IntToStr(n) ==
  IF n < 10 THEN <<DigitChars[n + 1]>>
  ELSE IntToStr(n \div 10) \o <<DigitChars[(n % 10) + 1]>>

\* pd.notna(value)
notna(cell) == cell.kind # "nan"

\* str(value)
str(cell) ==
  CASE cell.kind = "str" -> cell.text
    [] cell.kind = "int" -> IntToStr(cell.value)
    [] cell.kind = "nan" -> <<"n","a","n">>

\* `x in list`
InList(x, list) == \E i \in 1..Len(list) : list[i] = x

\* a faulty variant: the clause is the trimmed value without its label
ClauseUnlabelled(row, columns_to_combine, column, label) ==
  IF /\ InList(column, columns_to_combine)
     /\ column \in DOMAIN row
     /\ notna(row[column])
     /\ Strip(str(row[column])) # <<>>
  THEN <<Strip(str(row[column]))>>
  ELSE <<>>

\* one `if` statement of lines 14-25: the labelled clause, or nothing
Clause(row, columns_to_combine, column, label) ==
  IF /\ InList(column, columns_to_combine)
     /\ column \in DOMAIN row
     /\ notna(row[column])
     /\ Strip(str(row[column])) # <<>>
  THEN <<label \o <<":"," ">> \o Strip(str(row[column]))>>
  ELSE <<>>

\* a faulty variant: the clauses follow the order of columns_to_combine
RECURSIVE FormattedPartsListedOrder(_, _)
FormattedPartsListedOrder(row, columns_to_combine) ==
  IF columns_to_combine = <<>> THEN <<>>
  ELSE LET column == Head(columns_to_combine)
           label  == CASE column = "domain"       -> <<"D","o","m","a","i","n">>
                       [] column = "year founded" -> <<"F","o","u","n","d","e","d">>
                       [] column = "industry"     -> <<"I","n","d","u","s","t","r","y">>
                       [] column = "locality"     -> <<"L","o","c","a","l","i","t","y">>
                       [] column = "country"      -> <<"C","o","u","n","t","r","y">>
                       [] column = "linkedin url" -> <<"L","i","n","k","e","d","I","n"," ","U","R","L">>
                       [] OTHER                   -> <<>>
       IN  Clause(row, <<column>>, column, label)
           \o FormattedPartsListedOrder(row, Tail(columns_to_combine))

\* lines 11-25: formatted_parts after the six `if` statements
formatted_parts(row, columns_to_combine) ==
     Clause(row, columns_to_combine, "domain", <<"D","o","m","a","i","n">>)
  \o Clause(row, columns_to_combine, "year founded", <<"F","o","u","n","d","e","d">>)
  \o Clause(row, columns_to_combine, "industry", <<"I","n","d","u","s","t","r","y">>)
  \o Clause(row, columns_to_combine, "locality", <<"L","o","c","a","l","i","t","y">>)
  \o Clause(row, columns_to_combine, "country", <<"C","o","u","n","t","r","y">>)
  \o Clause(row, columns_to_combine, "linkedin url", <<"L","i","n","k","e","d","I","n"," ","U","R","L">>)

\* ". ".join(parts), for a non-empty list
RECURSIVE JoinParts(_)
JoinParts(parts) ==
  IF Len(parts) = 1 THEN parts[1]
  ELSE parts[1] \o <<"."," ">> \o JoinParts(Tail(parts))

\* line 28
combine_columns_to_description(row, columns_to_combine) ==
  LET parts == formatted_parts(row, columns_to_combine)
  IN  IF parts # <<>> THEN JoinParts(parts) \o <<".">> ELSE <<>>

\* line 59
descriptive_cols ==
  <<"domain", "year founded", "industry", "locality", "country", "linkedin url">>

\* Series.fillna(value) on one cell
fillna(cell, value) == IF notna(cell) THEN cell ELSE StrCell(value)

\* a faulty variant: the first column is taken as the company name
LoadFirstColumnAsName(filepath, is_sample) ==
  IF filepath.kind # "frame" \/ filepath.columns = <<>>
  THEN [records |-> <<>>, error |-> "load_error"]
  ELSE [records |->
          [k \in 1..Len(filepath.rows) |->
             [company_name      |-> filepath.rows[k][filepath.columns[1]],
              description       |-> <<>>,
              original_industry |-> StrCell(<<"N","/","A">>)]],
        error |-> "none"]

\* load_company_data(filepath, is_sample), lines 31-81: the records of the
\* returned DataFrame and the error reported on the way.  filepath.kind is
\* "missing" (no file at the sample path), "unreadable" (read_csv raises) or
\* "frame" (read_csv returns the DataFrame of filepath.columns and
\* filepath.rows)
load_company_data(filepath, is_sample) ==
  IF is_sample /\ filepath.kind = "missing"
  THEN [records |-> <<>>, error |-> "sample_not_found"]
  ELSE IF filepath.kind # "frame"
  THEN [records |-> <<>>, error |-> "load_error"]
  ELSE IF ~InList("name", filepath.columns)
  THEN [records |-> <<>>, error |-> "missing_name"]
  ELSE LET existing_descriptive_cols ==
             SelectSeq(descriptive_cols, LAMBDA col : InList(col, filepath.columns))
       IN  [records |->
              [k \in 1..Len(filepath.rows) |->
                 [company_name |-> filepath.rows[k]["name"],
                  description  |->
                    IF existing_descriptive_cols = <<>> THEN <<>>
                    ELSE combine_columns_to_description(filepath.rows[k],
                                                        existing_descriptive_cols),
                  original_industry |->
                    IF InList("industry", filepath.columns)
                    THEN fillna(filepath.rows[k]["industry"], <<"N","/","A">>)
                    ELSE StrCell(<<"N","/","A">>)]],
            error |-> "none"]

----------------------------------------------------------------------------
(* Inputs of combine_columns_to_description.                                *)

MaxCells == 2

CellValues ==
  { NaN,
    StrCell(<<" ">>),
    StrCell(<<"a","c","m","e",".","c","o","m">>),
    StrCell(<<" ","n","e","w"," ","y","o","r","k"," ">>),
    IntCell(1911) }

ComposeRows ==
  UNION { [cols -> CellValues] :
          cols \in { c \in SUBSET {descriptive_cols[i] : i \in 1..6} :
                       Cardinality(c) <= MaxCells } }

ColumnLists ==
  { <<>>,
    <<"domain">>,
    <<"domain", "industry">>,
    <<"industry", "domain">>,
    <<"country", "locality", "year founded">>,
    descriptive_cols,
    <<"linkedin url", "country", "locality", "industry", "year founded", "domain">> }

NoComposeInput == [row |-> <<>>, columns_to_combine |-> <<>>]

NoComposeResult == [called |-> FALSE, text |-> <<>>]

----------------------------------------------------------------------------
(* Orchestration, src/app.py.                                               *)

NA == <<"N","/","A">>

\* "Error (Gemini not ready)"
ErrorGeminiNotReady ==
  <<"E","r","r","o","r"," ","(","G","e","m","i","n","i"," ","n","o","t"," ",
    "r","e","a","d","y",")">>

\* "Error"
ErrorManual == <<"E","r","r","o","r">>

ITServicesLong ==
  <<"i","n","f","o","r","m","a","t","i","o","n"," ","t","e","c","h","n","o",
    "l","o","g","y"," ","a","n","d"," ","s","e","r","v","i","c","e","s">>

ITServicesShort == <<"i","t"," ","s","e","r","v","i","c","e","s">>

Methods == {"Keyword-Based Classifier", "Gemini AI Classifier"}

\* lines 153 and 218: the record counts towards total_predictions
Eligible(original_industry, predicted_industry) ==
  /\ original_industry # NA
  /\ predicted_industry # NA
  /\ predicted_industry # ErrorGeminiNotReady

MentionsITServices(label) ==
  \/ Contains(Lower(label), ITServicesLong)
  \/ Contains(Lower(label), ITServicesShort)

\* lines 156-161 and 220-224: the record counts towards correct_predictions
IsMatch(original_industry, predicted_industry) ==
  \/ Lower(predicted_industry) = Lower(original_industry)
  \/ MentionsITServices(original_industry) /\ MentionsITServices(predicted_industry)

RECURSIVE GCD(_, _)
GCD(a, b) == IF b = 0 THEN a ELSE GCD(b, a % b)

RECURSIVE IsPowerOfTwo(_)
IsPowerOfTwo(n) == n = 1 \/ (n > 1 /\ n % 2 = 0 /\ IsPowerOfTwo(n \div 2))

\* the odd p for which '{:.2f}' of the double (p / 160) * 100 shows the upper
\* of the two hundredths the exact value lies halfway between
HalfwayShownUp ==
  { 3, 7, 11, 19, 27, 31, 39, 43, 47, 49, 59, 63, 67, 71, 79, 83,
    91, 93, 99, 103, 107, 111, 119, 123, 127, 131, 139, 143, 147, 151, 159 }

\* lines 167-168 and 231-232: accuracy = (correct_predictions /
\* total_predictions) * 100 as f"{accuracy:.2f}" shows it, in hundredths of
\* a percent, for 0 < total_predictions < 800.  The value is halfway between
\* two hundredths only when the reduced denominator is 32 (the double is
\* exact and the format rounds to the even digit) or 160
FormatAccuracy(correct_predictions, total_predictions) ==
  LET q == (10000 * correct_predictions) \div total_predictions
      r == (10000 * correct_predictions) % total_predictions
      g == GCD(correct_predictions, total_predictions)
  IN  IF 2 * r < total_predictions THEN q
      ELSE IF 2 * r > total_predictions THEN q + 1
      ELSE IF IsPowerOfTwo(total_predictions \div g)
           THEN (IF q % 2 = 0 THEN q ELSE q + 1)
           ELSE IF (correct_predictions \div g) \in HalfwayShownUp THEN q + 1 ELSE q

\* lines 131-140 and 196-205: the classifier call made for one row
ClassifyRow(method, row, ready, outcome) ==
  IF method = "Keyword-Based Classifier"
  THEN classify_company_keyword_based(row.company_name, row.description)
       @@ [calls |-> 0]
  ELSE IF ready
       THEN GeminiReply(ready, outcome)
       ELSE [label |-> ErrorGeminiNotReady, confidence |-> 0, calls |-> 0]

----------------------------------------------------------------------------
(* Inputs of the adapter and of the orchestration.                          *)

MaxBatch == 3

Companies ==
  { [company_name |-> <<"i","b","m">>,
     description  |-> <<"D","o","m","a","i","n",":"," ","i","b","m",".","c","o","m",".">>],
    [company_name |-> <<"A","c","m","e">>,
     description  |-> <<"p","a","y","m","e","n","t">>] }

\* the manual form may be submitted with a field left empty
ManualInputs ==
  Companies \cup { [company_name |-> <<>>, description |-> <<"p","a","y","m","e","n","t">>] }

\* existing_industry: not passed (None), or a string
Hints ==
  { [given |-> FALSE, value |-> <<>>],
    [given |-> TRUE,  value |-> <<" ", "">>],
    [given |-> TRUE,  value |-> Other],
    [given |-> TRUE,  value |-> <<"R","e","t","a","i","l">>],
    [given |-> TRUE,  value |-> <<"f","i","n","t","e","c","h"," ">>],
    [given |-> TRUE,  value |-> NA] }

\* response.text of the generative service
Responses ==
  { <<" "," ","I","n","f","o","r","m","a","t","i","o","n"," ","T","e","c","h",
      "n","o","l","o","g","y"," ","A","n","d"," ","S","e","r","v","i","c","e",
      "s"," "," ">>,
    <<"i","n","v","e","s","t","m","e","n","t"," ","b","a","n","k","i","n","g">>,
    <<"r","e","a","l"," ","e","s","t","a","t","e">>,
    <<"R","e","t","a","i","l","\n">>,
    <<"b","l","o","r","p">>,
    Other,
    <<>> }

\* what one generate_content call does: it answers, it raises, or reading
\* response.text raises
ServiceOutcomes ==
  { [kind |-> "ok", text |-> r] : r \in Responses }
  \cup { [kind |-> "call_raises", text |-> <<>>],
         [kind |-> "text_raises", text |-> <<>>] }

NoCall == [kind |-> "no_call", text |-> <<>>]

\* DataFrames read_csv can return.  The industry column holds strings or
\* missing values; an empty CSV field is read as NaN, also in the name column
MainFrame ==
  [kind    |-> "frame",
   columns |-> <<"name", "domain", "industry">>,
   rows    |->
     << [name |-> StrCell(<<"S","h","o","p">>), domain |-> NaN, industry |-> StrCell(<<"r","e","t","a","i","l">>)],
        [name |-> StrCell(<<"i","b","m">>), domain |-> StrCell(<<"i","b","m",".","c","o","m">>),
         industry |-> StrCell(<<"I","T"," ","S","e","r","v","i","c","e","s">>)],
        [name |-> StrCell(<<"M","a","r","t">>), domain |-> StrCell(<<" ">>),
         industry |-> StrCell(<<"R","e","t","a","i","l">>)],
        [name |-> StrCell(<<"A","c","m","e">>), domain |-> StrCell(<<"a","c","m","e",".","c","o","m">>), industry |-> NaN],
        [name |-> NaN, domain |-> StrCell(<<"x",".","i","o">>), industry |-> StrCell(<<"r","e","t","a","i","l">>)] >>]

\* no descriptive column at all
NameOnlyFrame ==
  [kind    |-> "frame",
   columns |-> <<"name">>,
   rows    |-> << [name |-> StrCell(<<"A","c","m","e">>)], [name |-> StrCell(<<"p","a","y","m","e","n","t">>)] >>]

\* the required column is missing
NoNameFrame ==
  [kind    |-> "frame",
   columns |-> <<"domain", "industry">>,
   rows    |-> << [domain |-> StrCell(<<"a","c","m","e",".","c","o","m">>), industry |-> StrCell(<<"r","e","t","a","i","l">>)],
                  [domain |-> StrCell(<<"i","b","m",".","c","o","m">>), industry |-> NaN] >>]

\* the DataFrame of n consecutive rows of a frame, from row i on
Window(frame, i, n) == [frame EXCEPT !.rows = SubSeq(frame.rows, i, i + n - 1)]

Windows(frame, shortest) ==
  UNION { { Window(frame, i, n) : i \in 1..(Len(frame.rows) - n + 1) } :
          n \in shortest..MaxBatch }

\* what the batch buttons can be given: a table, a file read_csv rejects, or
\* (sample data only) no file at all
BatchFiles ==
  Windows(MainFrame, 1) \cup Windows(NameOnlyFrame, 0) \cup Windows(NoNameFrame, 1)
  \cup { [kind |-> "unreadable", columns |-> <<>>, rows |-> <<>>],
         [kind |-> "missing", columns |-> <<>>, rows |-> <<>>] }

NoFile == [kind |-> "none", columns |-> <<>>, rows |-> <<>>]

NoOp ==
  [op |-> "none", ready_before |-> FALSE, model_before |-> "None",
   key |-> "not_read", setup |-> "none",
   returned |-> FALSE, method |-> "none", company_name |-> <<>>,
   description |-> <<>>, hint |-> [given |-> FALSE, value |-> <<>>],
   prompt_examples |-> <<>>, outcome |-> NoCall,
   label |-> <<>>, confidence |-> 0]

IdleBatch ==
  [pc |-> "idle", method |-> "none", file |-> NoFile, load_error |-> "none",
   rows |-> <<>>, results |-> <<>>,
   correct_predictions |-> 0, total_predictions |-> 0,
   reported |-> FALSE, accuracy |-> 0]

----------------------------------------------------------------------------
(* The adapter and the application as a state machine.                      *)

\* lines 6-8 of llm_classifier.py and the module-level instance of line 129
Init ==
  /\ kw_in = [company_name |-> <<>>, description |-> <<>>]
  /\ kw_out = NoKwResult
  /\ model = "None"
  /\ api_key_set = FALSE
  /\ service_calls = 0
  /\ last = NoOp
  /\ batch = IdleBatch
  /\ compose_in = NoComposeInput
  /\ compose_out = NoComposeResult

\* os.getenv("GEMINI_API_KEY") as line 12 reads it: None, "" or a key
EnvKeys == {"unset", "empty", "present"}

\* no operation is in progress and no result is on display
Idle == last.op = "none" /\ batch.pc = "idle"

SetupOutcomes(key) ==
  IF KeyMissing(key) THEN {"not_reached"} ELSE {"ok", "raises"}

\* app.py lines 50-56, which every script run executes before any button
\* handler: initialize_gemini() is called when the adapter is not initialized
Sidebar(key, setup, cur_model, cur_flag) ==
  IF cur_flag /\ cur_model # "None"
  THEN [model |-> cur_model, api_key_set |-> cur_flag, returned |-> TRUE]
  ELSE InitResult(key, setup, cur_model, cur_flag)

\* what the sidebar reads in this run: the key and the outcome of the setup,
\* or nothing when the adapter is initialized
SidebarInputs ==
  IF is_initialized
  THEN {[key |-> "not_read", setup |-> "not_reached"]}
  ELSE UNION { {[key |-> k, setup |-> st] : st \in SetupOutcomes(k)} : k \in EnvKeys }

\* initialize_gemini(), lines 10-32
InitializeGemini ==
  /\ Idle
  /\ \E env_key \in EnvKeys : \E setup \in SetupOutcomes(env_key) :
       LET r == InitResult(env_key, setup, model, api_key_set)
       IN  /\ model' = r.model
           /\ api_key_set' = r.api_key_set
           /\ last' = [NoOp EXCEPT !.op = "initialize_gemini",
                                   !.ready_before = is_initialized,
                                   !.model_before = model,
                                   !.key = env_key,
                                   !.setup = setup,
                                   !.returned = r.returned]
  /\ service_calls' = 0
  /\ UNCHANGED <<compose_in, compose_out, kw_in, kw_out, batch>>

\* a script run in which no button is pressed: the sidebar of app.py, lines
\* 50-56, and nothing else
SidebarInit ==
  /\ Idle
  /\ \E env \in SidebarInputs :
       \E r \in {Sidebar(env.key, env.setup, model, api_key_set)} :
         /\ model' = r.model
         /\ api_key_set' = r.api_key_set
         /\ last' = [NoOp EXCEPT !.op = "sidebar",
                                 !.ready_before = is_initialized,
                                 !.model_before = model,
                                 !.key = env.key,
                                 !.setup = env.setup,
                                 !.returned = r.returned]
  /\ service_calls' = 0
  /\ UNCHANGED <<compose_in, compose_out, kw_in, kw_out, batch>>

\* classify_company_gemini(company_name, description, existing_industry),
\* lines 39-126, called on the adapter in whatever state it is
ClassifyGemini ==
  /\ Idle
  /\ \E c \in Companies, h \in Hints,
        outcome \in (IF is_initialized THEN ServiceOutcomes ELSE {NoCall}) :
       \E r \in {GeminiReply(is_initialized, outcome)} :
           /\ service_calls' = r.calls
           /\ last' = [NoOp EXCEPT
                 !.op = "classify_company_gemini",
                 !.ready_before = is_initialized,
                 !.company_name = c.company_name,
                 !.description = c.description,
                 !.hint = h,
                 !.prompt_examples =
                    IF is_initialized
                    THEN PromptExamples(c.company_name, c.description,
                                        h.given, h.value)
                    ELSE <<>>,
                 !.outcome = outcome,
                 !.label = r.label,
                 !.confidence = r.confidence]
  /\ UNCHANGED <<compose_in, compose_out, kw_in, kw_out, model, api_key_set, batch>>

\* a script run with "Classify Manually Entered Company" pressed: the
\* sidebar of lines 50-56, then app.py lines 75-96.  ready_before is the
\* adapter's readiness when the handler runs
ManualClassify ==
  /\ Idle
  /\ \E c \in ManualInputs, method \in Methods, env \in SidebarInputs :
     \E side \in {Sidebar(env.key, env.setup, model, api_key_set)} :
     \E ready \in {side.api_key_set /\ side.model # "None"} :
     \E ran \in {[NoOp EXCEPT !.op = "manual",
                              !.ready_before = ready,
                              !.model_before = model,
                              !.key = env.key,
                              !.setup = env.setup,
                              !.method = method,
                              !.company_name = c.company_name,
                              !.description = c.description]} :
       /\ model' = side.model
       /\ api_key_set' = side.api_key_set
       /\ IF c.company_name = <<>> \/ c.description = <<>>
          THEN \* line 96: a warning, nothing is classified
               /\ service_calls' = 0
               /\ last' = [ran EXCEPT !.op = "manual_rejected"]
          ELSE IF method = "Keyword-Based Classifier"
          THEN \E r \in {classify_company_keyword_based(c.company_name,
                                                          c.description)} :
                 /\ service_calls' = 0
                 /\ last' = [ran EXCEPT !.label = r.label,
                                        !.confidence = r.confidence]
          ELSE IF ready
          THEN \E outcome \in ServiceOutcomes :
               \E r \in {GeminiReply(TRUE, outcome)} :
                 /\ service_calls' = r.calls
                 /\ last' = [ran EXCEPT
                       !.prompt_examples =
                          PromptExamples(c.company_name, c.description,
                                         FALSE, <<>>),
                       !.outcome = outcome,
                       !.label = r.label,
                       !.confidence = r.confidence]
          ELSE \* lines 84-85
               /\ service_calls' = 0
               /\ last' = [ran EXCEPT !.label = ErrorManual,
                                      !.confidence = 0]
  /\ UNCHANGED <<compose_in, compose_out, kw_in, kw_out, batch>>

\* a script run with a batch button pressed: the sidebar of lines 50-56,
\* then the table is loaded, app.py lines 111-121 (uploaded CSV) and 180-186
\* (sample data); an empty table is reported.  The loop and the accuracy are
\* the following steps of the same run
BatchStart ==
  /\ Idle
  /\ \E filepath \in BatchFiles, is_sample \in BOOLEAN, method \in Methods,
        env \in SidebarInputs :
       /\ filepath.kind = "missing" => is_sample
       /\ \E side \in {Sidebar(env.key, env.setup, model, api_key_set)} :
            /\ model' = side.model
            /\ api_key_set' = side.api_key_set
       /\ \E loaded \in {load_company_data(filepath, is_sample)} :
            batch' = [IdleBatch EXCEPT
                        !.pc = IF loaded.records = <<>> THEN "rejected" ELSE "loop",
                        !.method = method,
                        !.file = filepath,
                        !.load_error = loaded.error,
                        !.rows = loaded.records]
  /\ service_calls' = 0
  /\ UNCHANGED <<compose_in, compose_out, kw_in, kw_out, last>>

\* one iteration of the loop over the rows, app.py lines 123-161 (uploaded
\* CSV) and 188-224 (sample data).  In keyword mode classifier.py line 16
\* concatenates company_name with a string: a name that is not a string
\* raises TypeError, which nothing catches, and the run ends there
BatchStep ==
  /\ batch.pc = "loop"
  /\ Len(batch.results) < Len(batch.rows)
  /\ LET row == batch.rows[Len(batch.results) + 1]
         calling == batch.method = "Gemini AI Classifier" /\ is_initialized
     IN  IF batch.method = "Keyword-Based Classifier" /\ row.company_name.kind # "str"
         THEN /\ batch' = [batch EXCEPT !.pc = "crashed"]
              /\ UNCHANGED service_calls
         ELSE
         \E outcome \in (IF calling THEN ServiceOutcomes ELSE {NoCall}) :
         \E r \in {ClassifyRow(batch.method,
                               [company_name |-> str(row.company_name),
                                description  |-> row.description],
                               is_initialized, outcome)} :
         \E eligible \in {Eligible(row.original_industry.text, r.label)} :
         \E match \in {eligible /\ IsMatch(row.original_industry.text, r.label)} :
           /\ batch' = [batch EXCEPT
                 !.results = Append(@,
                    [company_name       |-> row.company_name,
                     description        |-> row.description,
                     original_industry  |-> row.original_industry.text,
                     predicted_industry |-> r.label,
                     confidence         |-> r.confidence,
                     outcome            |-> outcome.kind,
                     prompt_outputs     |->
                       IF calling
                       THEN LET ex == PromptExamples(str(row.company_name),
                                                     row.description, TRUE,
                                                     row.original_industry.text)
                            IN  [i \in 1..Len(ex) |-> ex[i].output]
                       ELSE <<>>]),
                 !.total_predictions = IF eligible THEN @ + 1 ELSE @,
                 !.correct_predictions = IF match THEN @ + 1 ELSE @]
           /\ service_calls' = service_calls + r.calls
  /\ UNCHANGED <<compose_in, compose_out, kw_in, kw_out, model, api_key_set, last>>

\* after the loop, app.py lines 163-171 and 227-235: the accuracy, in
\* hundredths of a percent, is reported when total_predictions > 0
BatchFinish ==
  /\ batch.pc = "loop"
  /\ Len(batch.results) = Len(batch.rows)
  /\ batch' = [batch EXCEPT
        !.pc = "done",
        !.reported = batch.total_predictions > 0,
        !.accuracy = IF batch.total_predictions > 0
                     THEN FormatAccuracy(batch.correct_predictions,
                                         batch.total_predictions)
                     ELSE 0]
  /\ UNCHANGED <<compose_in, compose_out, kw_in, kw_out, model, api_key_set, service_calls, last>>

\* the caller has the return value, or the next interaction reruns the
\* script and the batch's locals are gone
Rerun ==
  /\ last.op # "none" \/ batch.pc \in {"done", "rejected", "crashed"}
  /\ last' = NoOp
  /\ batch' = IdleBatch
  /\ service_calls' = 0
  /\ UNCHANGED <<compose_in, compose_out, kw_in, kw_out, model, api_key_set>>

Next ==
  \/ InitializeGemini
  \/ SidebarInit
  \/ ClassifyGemini
  \/ ManualClassify
  \/ BatchStart
  \/ BatchStep
  \/ BatchFinish
  \/ Rerun

Spec == Init /\ [][Next]_vars

----------------------------------------------------------------------------
(* The keyword classifier applied to every bounded input.                   *)

InitKeyword ==
  /\ kw_in \in [company_name : KwNames,
                description  : Descriptions \cup KeywordTexts]
  /\ kw_out = NoKwResult
  /\ model = "None"
  /\ api_key_set = FALSE
  /\ service_calls = 0
  /\ last = NoOp
  /\ batch = IdleBatch
  /\ compose_in = NoComposeInput
  /\ compose_out = NoComposeResult

ClassifyKeyword ==
  /\ ~kw_out.called
  /\ \E r \in {classify_company_keyword_based(kw_in.company_name,
                                               kw_in.description)} :
       kw_out' = [called |-> TRUE, label |-> r.label, confidence |-> r.confidence]
  /\ UNCHANGED <<compose_in, compose_out, kw_in, model, api_key_set, service_calls, last, batch>>

NextKeyword == ClassifyKeyword

SpecKeyword == InitKeyword /\ [][NextKeyword]_vars

----------------------------------------------------------------------------
(* combine_columns_to_description applied to every bounded input.           *)

InitCompose ==
  /\ compose_in \in [row : ComposeRows, columns_to_combine : ColumnLists]
  /\ compose_out = NoComposeResult
  /\ kw_in = [company_name |-> <<>>, description |-> <<>>]
  /\ kw_out = NoKwResult
  /\ model = "None"
  /\ api_key_set = FALSE
  /\ service_calls = 0
  /\ last = NoOp
  /\ batch = IdleBatch

Compose ==
  /\ ~compose_out.called
  /\ compose_out' =
       [called |-> TRUE,
        text   |-> combine_columns_to_description(compose_in.row,
                                                  compose_in.columns_to_combine)]
  /\ UNCHANGED <<compose_in, kw_in, kw_out, model, api_key_set, service_calls,
                 last, batch>>

NextCompose == Compose

SpecCompose == InitCompose /\ [][NextCompose]_vars

----------------------------------------------------------------------------
(* Properties of the adapter and of the batch metric, checked under Spec.   *)

GeminiWasCalled ==
  \/ last.op = "classify_company_gemini"
  \/ last.op = "manual" /\ last.method = "Gemini AI Classifier"

\* C1: whenever the stripped response equals an allowed entry ignoring case,
\* classify_company_gemini returns that very entry with confidence 1.0, even
\* if an earlier entry of the list is contained in the response or contains it.
C1_ExactMatchWins ==
  (GeminiWasCalled /\ last.ready_before /\ last.outcome.kind = "ok") =>
    \A i \in 1..Len(allowed_industries) :
      Lower(allowed_industries[i]) = Lower(Strip(last.outcome.text)) =>
        /\ last.label = allowed_industries[i]
        /\ last.confidence = 100

\* C2: called on an adapter that is not Ready, classify_company_gemini makes
\* no call to the generative service and returns the not-initialized sentinel
\* with confidence 0.0, whatever the input and the earlier operations.
C2_NotReadyNoCall ==
  (last.op = "classify_company_gemini" /\ ~last.ready_before) =>
    /\ last.label = ErrorNotInitialized
    /\ last.confidence = 0
    /\ service_calls = 0
    /\ ~is_initialized

\* the adapter had been Ready, a later initialization failed, then classify
C2_Witness ==
  /\ last.op = "classify_company_gemini"
  /\ ~last.ready_before
  /\ model # "None"
  /\ last.hint.given
  /\ last.label = ErrorNotInitialized
  /\ service_calls = 0

\* C3: on a Ready adapter, an error raised by generate_content or by reading
\* response.text is returned as ("Error (API Failed)", 0.0); the service was
\* invoked exactly once and the adapter is still Ready.
C3_ApiFailureIsCaught ==
  (GeminiWasCalled /\ last.ready_before
     /\ last.outcome.kind \in {"call_raises", "text_raises"}) =>
    /\ last.label = ErrorApiFailed
    /\ last.confidence = 0
    /\ service_calls = 1
    /\ is_initialized

C3_Witness ==
  /\ last.op = "classify_company_gemini"
  /\ last.ready_before
  /\ last.outcome.kind = "text_raises"
  /\ last.label = ErrorApiFailed
  /\ service_calls = 1
  /\ is_initialized

\* the error sentinels a classifier path can put in a result row
ErrorSentinels == {ErrorGeminiNotReady, ErrorApiFailed, ErrorNotInitialized}

\* C4: total_predictions counts exactly the result rows whose original label
\* is not "N/A" and whose predicted label is neither "N/A" nor an error
\* sentinel; a row predicted "Error (API Failed)" is never counted.
C4_ErrorRowsNotEligible ==
  batch.pc \in {"loop", "done"} =>
    batch.total_predictions =
      Cardinality({k \in 1..Len(batch.results) :
                     /\ batch.results[k].original_industry # NA
                     /\ batch.results[k].predicted_industry # NA
                     /\ batch.results[k].predicted_industry \notin ErrorSentinels})

\* C5: initialize_gemini called on a Ready adapter returns success and leaves
\* it Ready, whatever the environment holds at that call.
C5_InitializeIdempotent ==
  (last.op = "initialize_gemini" /\ last.ready_before) =>
    /\ last.returned
    /\ is_initialized

\* C6: a fresh adapter is not initialized; every initialize_gemini call (made
\* directly or by the sidebar) returns true exactly when the key is present
\* and setup raised nothing, and the adapter is Ready afterwards exactly when
\* the call returned true; so a failed adapter becomes Ready on a later call
\* that finds the key.
C6_InitializeOutcome ==
  /\ ~is_initialized
  /\ [](((last.op = "initialize_gemini")
           \/ (last.op = "sidebar" /\ ~last.ready_before)) =>
         /\ last.returned <=> (last.key = "present" /\ last.setup = "ok")
         /\ is_initialized <=> last.returned)

\* an adapter that was Ready and then failed is Ready again
C6_Witness ==
  /\ last.op = "initialize_gemini"
  /\ ~last.ready_before
  /\ last.model_before # "None"
  /\ last.key = "present"
  /\ last.returned
  /\ is_initialized

----------------------------------------------------------------------------
(* Properties of the prompt and of the response normalization, checked      *)
(* under Spec.                                                              *)

\* the hint as the specification admits it: provided, non-blank, not the
\* fallback label, not the output of a fixed example ignoring case
HintAdmitted ==
  /\ last.hint.given
  /\ Strip(last.hint.value) # <<>>
  /\ last.hint.value # Other
  /\ \A i \in 1..Len(examples) :
       Lower(examples[i].output) # Lower(last.hint.value)

\* C11: the prompt lists the five fixed examples in their order, preceded by
\* one example (input built from the current company, output the trimmed
\* hint) exactly when the hint is provided, non-blank, not "Other" and not
\* equal, ignoring case, to the output of a fixed example.
C11_PromptExamples ==
  (GeminiWasCalled /\ last.ready_before) =>
    /\ Len(examples) = 5
    /\ HintAdmitted =>
         /\ Len(last.prompt_examples) = 6
         /\ last.prompt_examples[1].input =
              <<"C","o","m","p","a","n","y",":"," ">> \o last.company_name
              \o <<"."," ","D","e","s","c","r","i","p","t","i","o","n",":"," ">>
              \o last.description
         /\ last.prompt_examples[1].output = Strip(last.hint.value)
         /\ \A i \in 1..5 : last.prompt_examples[i + 1] = examples[i]
    /\ ~HintAdmitted => last.prompt_examples = examples

\* the hint "fintech " is admitted and heads the examples as "fintech"
C11_Witness ==
  /\ last.op = "classify_company_gemini"
  /\ last.ready_before
  /\ last.hint.value = <<"f","i","n","t","e","c","h"," ">>
  /\ Len(last.prompt_examples) = 6
  /\ last.prompt_examples[1].output = <<"f","i","n","t","e","c","h">>

\* the entries of the list that match the stripped response, ignoring case,
\* by equality or by containment in either direction
MatchingEntries ==
  LET p == Lower(Strip(last.outcome.text))
  IN  {i \in 1..Len(allowed_industries) :
         \/ Lower(allowed_industries[i]) = p
         \/ Contains(p, Lower(allowed_industries[i]))
         \/ Contains(Lower(allowed_industries[i]), p)}

\* C12: when the service answers, the first matching entry of the list is
\* returned with confidence 1.0, and ("Other", 0.5) is returned exactly when
\* no entry matches.
C12_FirstMatchOrOther ==
  (GeminiWasCalled /\ last.ready_before /\ last.outcome.kind = "ok") =>
    /\ MatchingEntries # {} =>
         /\ last.label = allowed_industries[CHOOSE i \in MatchingEntries :
                                              \A j \in MatchingEntries : i <= j]
         /\ last.confidence = 100
    /\ (last.label = Other /\ last.confidence = 50) <=> MatchingEntries = {}

\* "real estate": entry 16 contains it and comes before the equal entry 89
C12_Witness ==
  /\ last.op = "classify_company_gemini"
  /\ last.ready_before
  /\ last.outcome.kind = "ok"
  /\ last.outcome.text = <<"r","e","a","l"," ","e","s","t","a","t","e">>
  /\ 16 \in MatchingEntries
  /\ 89 \in MatchingEntries
  /\ last.label = allowed_industries[16]
  /\ last.confidence = 100

\* C19: a response that is empty after stripping matches no entry: the
\* result is ("Other", 0.5), never an industry with confidence 1.0.
C19_EmptyResponseIsOther ==
  (GeminiWasCalled /\ last.ready_before /\ last.outcome.kind = "ok"
     /\ Strip(last.outcome.text) = <<>>) =>
    /\ last.label = Other
    /\ last.confidence = 50

----------------------------------------------------------------------------
(* Properties of the batch run, checked under Spec.                         *)

\* C13: a batch run over the loaded records is looping or done and never
\* ends otherwise, whatever the classifier mode: it holds one result row per
\* processed record, in input order, as many as records once done, and a row
\* that carries an error sentinel has confidence 0.0.
C13_BatchCompletes ==
  batch.pc \notin {"idle", "rejected"} =>
    /\ batch.pc \in {"loop", "done"}
    /\ Len(batch.results) <= Len(batch.rows)
    /\ batch.pc = "done" => Len(batch.results) = Len(batch.rows)
    /\ \A k \in 1..Len(batch.results) :
         /\ batch.results[k].company_name = batch.rows[k].company_name
         /\ batch.results[k].description = batch.rows[k].description
         /\ batch.results[k].predicted_industry \in ErrorSentinels
              => batch.results[k].confidence = 0

\* C14: a table without a `name` column loads as zero records with the
\* rejection reported and no exception; no record is classified: no result
\* row, no service call, no accuracy.
C14_MissingNameRejected ==
  ( /\ batch.pc # "idle"
    /\ batch.file.kind = "frame"
    /\ \A i \in 1..Len(batch.file.columns) : batch.file.columns[i] # "name" ) =>
      /\ batch.rows = <<>>
      /\ batch.load_error = "missing_name"
      /\ batch.pc = "rejected"
      /\ batch.results = <<>>
      /\ service_calls = 0
      /\ batch.total_predictions = 0
      /\ ~batch.reported

\* a two-row table with the columns domain and industry only is rejected
C14_Witness ==
  /\ batch.pc = "rejected"
  /\ batch.file.columns = <<"domain", "industry">>
  /\ Len(batch.file.rows) = 2
  /\ batch.load_error = "missing_name"
  /\ batch.results = <<>>

\* the result row has an original label and a predicted label that is no
\* sentinel
RowEligible(k) ==
  /\ batch.results[k].original_industry # NA
  /\ batch.results[k].predicted_industry \notin ({NA} \cup ErrorSentinels)

\* the label names IT services in one of the two accepted wordings
NamesITServices(label) ==
  \E wording \in {ITServicesLong, ITServicesShort} : Contains(Lower(label), wording)

RowMatches(k) ==
  \/ Lower(batch.results[k].predicted_industry)
       = Lower(batch.results[k].original_industry)
  \/ /\ NamesITServices(batch.results[k].original_industry)
     /\ NamesITServices(batch.results[k].predicted_industry)

\* C17: the matches counted are the eligible records whose labels are equal
\* ignoring case or both name IT services; matches never exceed the eligible
\* records; the accuracy, matches / eligible records x 100 to two decimals,
\* is reported only when there is an eligible record; 3 of 3 gives 100% and
\* 2 of 3 gives 66.67%.
C17_AccuracyMetric ==
  batch.pc \in {"loop", "done"} =>
    LET eligible == {k \in 1..Len(batch.results) : RowEligible(k)}
        matches  == {k \in eligible : RowMatches(k)}
        e == Cardinality(eligible)
        m == Cardinality(matches)
    IN  /\ batch.correct_predictions = m
        /\ m <= e
        /\ batch.reported =>
             /\ e > 0
             /\ 2 * (batch.accuracy * e - m * 10000) <= e
             /\ 2 * (m * 10000 - batch.accuracy * e) <= e
             /\ (e = 3 /\ m = 3) => batch.accuracy = 10000
             /\ (e = 3 /\ m = 2) => batch.accuracy = 6667

\* C18: in batch LLM mode a record without an original label ("N/A") gets
\* a prompt with exactly the five fixed examples and no example whose output
\* is "N/A".
C18_NoHintExampleForNA ==
  \A k \in 1..Len(batch.results) :
    ( /\ batch.method = "Gemini AI Classifier"
      /\ batch.results[k].outcome # "no_call"
      /\ batch.results[k].original_industry = NA ) =>
        /\ batch.results[k].prompt_outputs = [i \in 1..5 |-> examples[i].output]
        /\ \A i \in 1..Len(batch.results[k].prompt_outputs) :
             batch.results[k].prompt_outputs[i] # NA

\* the record's row of the table has a non-blank `domain` field
HasDomainField(k) ==
  /\ "domain" \in DOMAIN batch.file.rows[k]
  /\ batch.file.rows[k]["domain"].kind = "str"
  /\ Strip(batch.file.rows[k]["domain"].text) # <<>>

AIML == <<"A","I","/","M","L">>

\* C20: in keyword mode a record with a non-blank domain field is never
\* labelled "Other": its normalized text contains "domain", hence the AI/ML
\* keyword "ai", so AI/ML scores at least 1; when no other industry scores
\* higher, or as high from an earlier place of the table, the record is
\* labelled "AI/ML" with confidence 1.0.
C20_DomainNeverOther ==
  (batch.pc \in {"loop", "done"} /\ batch.method = "Keyword-Based Classifier") =>
    \A k \in 1..Len(batch.results) :
      HasDomainField(k) =>
        LET text == NormalizeText(batch.results[k].company_name.text,
                                  batch.results[k].description)
            ai   == CHOOSE i \in 1..Len(industry_keywords) :
                      industry_keywords[i].industry = AIML
            aiScore == Score(industry_keywords[ai], text)
        IN  /\ Contains(text, <<"d","o","m","a","i","n">>)
            /\ \E n \in 1..Len(industry_keywords[ai].keywords) :
                 industry_keywords[ai].keywords[n] = <<"a","i">>
            /\ aiScore >= 1
            /\ batch.results[k].predicted_industry # Other
            /\ (\A j \in 1..Len(industry_keywords) :
                  j # ai =>
                    LET s == Score(industry_keywords[j], text)
                    IN  ~(s > aiScore \/ (s = aiScore /\ j < ai)))
                 => /\ batch.results[k].predicted_industry = AIML
                    /\ batch.results[k].confidence = 100

\* Acme with domain acme.com, in keyword mode, comes out as AI/ML at 1.0
C20_Witness ==
  /\ batch.method = "Keyword-Based Classifier"
  /\ \E k \in 1..Len(batch.results) :
       /\ HasDomainField(k)
       /\ batch.results[k].company_name = StrCell(<<"A","c","m","e">>)
       /\ batch.results[k].description = <<"D","o","m","a","i","n",":"," ","a","c","m","e",".","c","o","m",".">>
       /\ batch.results[k].predicted_industry = AIML
       /\ batch.results[k].confidence = 100

----------------------------------------------------------------------------
(* Properties of the keyword classifier, checked under SpecKeyword.         *)

\* the normalized text as the specification words it: name, one space and
\* description, in lower case, every character outside a-z, 0-9 and
\* whitespace replaced by a space
SpecNormalizedText ==
  LET raw == Lower(kw_in.company_name \o <<" ">> \o kw_in.description)
  IN  [i \in 1..Len(raw) |->
         IF raw[i] \in (LowerSet \cup Digits \cup Whitespace)
         THEN raw[i] ELSE " "]

\* the aggregate score of every industry of the table on that text
SpecScores ==
  [i \in 1..Len(industry_keywords) |->
     Score(industry_keywords[i], SpecNormalizedText)]

SomeKeywordOccurs ==
  \E i \in 1..Len(industry_keywords) :
    \E k \in 1..Len(industry_keywords[i].keywords) :
      Contains(SpecNormalizedText, industry_keywords[i].keywords[k])

\* C7: the confidence lies in [0.0, 1.0] and the label is a key of the
\* keyword table or "Other".
C7_KeywordResultInRange ==
  kw_out.called =>
    /\ kw_out.confidence \in 0..100
    /\ kw_out.label \in IndustryLabels \cup {Other}

\* a winning industry whose name occurs in the description: the boost applies
C7_Witness ==
  /\ kw_out.called
  /\ kw_out.label \in IndustryLabels
  /\ BoostApplies(kw_out.label, kw_in.description)
  /\ kw_in.description # <<>>
  /\ kw_out.confidence = 100

\* C8: the result is ("Other", 0.0) exactly when no keyword of any industry
\* occurs in the normalized text.
C8_OtherIffNoKeyword ==
  kw_out.called =>
    ((kw_out.label = Other /\ kw_out.confidence = 0) <=> ~SomeKeywordOccurs)

\* upper-case and punctuation in the input, and still a keyword is found
C8_Witness ==
  /\ kw_out.called
  /\ kw_in.description = <<"H","R","-","T","e","c","h">>
  /\ kw_in.company_name = <<"A","c","m","e"," ","I","n","c",".">>
  /\ kw_out.label # Other

\* C9: when some industry scores above 0, the label is the industry with the
\* highest aggregate score, and among equal highest scores the one that
\* comes first in the keyword table.
C9_MaxScoreFirstWins ==
  (kw_out.called /\ \E i \in 1..Len(industry_keywords) : SpecScores[i] > 0) =>
    \E w \in 1..Len(industry_keywords) :
      /\ kw_out.label = industry_keywords[w].industry
      /\ SpecScores[w] > 0
      /\ \A j \in 1..Len(industry_keywords) : SpecScores[j] <= SpecScores[w]
      /\ \A j \in 1..(w - 1) : SpecScores[j] < SpecScores[w]

\* only "crm" matches: SaaS and Marketing Tech tie, SaaS is listed first
C9_Witness ==
  /\ kw_out.called
  /\ kw_in.company_name = <<>>
  /\ kw_in.description = <<"C","R","M">>
  /\ SpecScores[1] = 1
  /\ SpecScores[9] = 1
  /\ kw_out.label = <<"S","a","a","S">>

\* C10: for every result other than "Other" the ratio's numerator and
\* denominator are the same sum and the returned confidence is exactly 1.0,
\* whether or not the boost applies; a single "saas" gives ("SaaS", 1.0).
C10_ConfidenceAlwaysOne ==
  kw_out.called =>
    /\ kw_out.label # Other =>
         /\ kw_out.confidence = 100
         /\ \A i \in 1..Len(industry_keywords) :
              kw_out.label = industry_keywords[i].industry =>
                Ratio(SpecScores[i],
                      TotalPossibleScore(industry_keywords[i],
                                         SpecNormalizedText)).q =
                  <<SpecScores[i], SpecScores[i]>>
    /\ (kw_in.company_name = <<>> /\ kw_in.description = <<"s","a","a","s">>) =>
         (kw_out.label = <<"S","a","a","S">> /\ kw_out.confidence = 100)

\* a result whose description does not name the industry: no boost, still 1.0
C10_Witness ==
  /\ kw_out.called
  /\ kw_out.label \in IndustryLabels
  /\ ~BoostApplies(kw_out.label, kw_in.description)
  /\ kw_out.confidence = 100

\* C15: every keyword of the table is lower-case and made of characters that
\* survive normalization (letters, digits, whitespace), so a description that
\* is the keyword itself matches it once normalized.
C15_KeywordsMatchable ==
  \A i \in 1..Len(industry_keywords) :
    \A k \in 1..Len(industry_keywords[i].keywords) :
      LET keyword == industry_keywords[i].keywords[k]
      IN  kw_in.description = keyword =>
            /\ \A n \in 1..Len(keyword) :
                 keyword[n] \in (LowerSet \cup Digits \cup Whitespace)
            /\ Contains(NormalizeText(kw_in.company_name, kw_in.description),
                        keyword)

----------------------------------------------------------------------------
(* Properties of the description composer, checked under SpecCompose.       *)

\* the label the specification gives each field
FieldLabel ==
  [c \in {descriptive_cols[i] : i \in 1..6} |->
     CASE c = "domain"       -> <<"D","o","m","a","i","n">>
       [] c = "year founded" -> <<"F","o","u","n","d","e","d">>
       [] c = "industry"     -> <<"I","n","d","u","s","t","r","y">>
       [] c = "locality"     -> <<"L","o","c","a","l","i","t","y">>
       [] c = "country"      -> <<"C","o","u","n","t","r","y">>
       [] c = "linkedin url" -> <<"L","i","n","k","e","d","I","n"," ","U","R","L">>]

\* the trimmed text of a field of the input row
FieldText(c) ==
  LET cell == compose_in.row[c]
  IN  Strip(IF cell.kind = "int" THEN IntToStr(cell.value) ELSE cell.text)

\* listed as present, existing in the row, non-null, non-blank once trimmed
FieldQualifies(c) ==
  /\ \E i \in 1..Len(compose_in.columns_to_combine) :
       compose_in.columns_to_combine[i] = c
  /\ c \in DOMAIN compose_in.row
  /\ compose_in.row[c].kind # "nan"
  /\ FieldText(c) # <<>>

\* the clauses of the fields q, each followed by its separator
RECURSIVE ClausesText(_)
ClausesText(q) ==
  IF q = <<>> THEN <<>>
  ELSE FieldLabel[Head(q)] \o <<":"," ">> \o FieldText(Head(q))
       \o (IF Len(q) = 1 THEN <<".">> ELSE <<"."," ">>)
       \o ClausesText(Tail(q))

\* C16: the composed description is one labelled clause per qualifying
\* field, in the fixed order Domain, Founded, Industry, Locality, Country,
\* LinkedIn URL whatever the order of the listed fields, joined by ". " and
\* ended by one period; it is "" when no field qualifies; a row holding only
\* domain "acme.com" gives "Domain: acme.com.".
C16_ComposeDescription ==
  compose_out.called =>
    /\ compose_out.text = ClausesText(SelectSeq(descriptive_cols, FieldQualifies))
    /\ (\A i \in 1..6 : ~FieldQualifies(descriptive_cols[i]))
         <=> compose_out.text = <<>>
    /\ ( /\ DOMAIN compose_in.row = {"domain"}
         /\ compose_in.row["domain"] = StrCell(<<"a","c","m","e",".","c","o","m">>)
         /\ FieldQualifies("domain") )
         => compose_out.text = <<"D","o","m","a","i","n",":"," ","a","c","m","e",".","c","o","m",".">>

\* industry listed before domain, both present: the domain clause still
\* comes first and the industry text is trimmed
C16_Witness ==
  /\ compose_out.called
  /\ compose_in.columns_to_combine = <<"industry", "domain">>
  /\ DOMAIN compose_in.row = {"domain", "industry"}
  /\ compose_in.row["domain"] = StrCell(<<"a","c","m","e",".","c","o","m">>)
  /\ compose_in.row["industry"] = StrCell(<<" ","n","e","w"," ","y","o","r","k"," ">>)
  /\ compose_out.text = <<"D","o","m","a","i","n",":"," ","a","c","m","e",".","c","o","m","."," ","I","n","d","u","s","t","r","y",":"," ","n","e","w"," ","y","o","r","k",".">>

====
